---- MODULE Spec2Model ----
(***************************************************************************)
(* Model of the local snapshot persistence of the PlantUML editor          *)
(* (src/src/js/app.js): the localStorage keys 'plantuml-default' and       *)
(* 'plantuml-files', the editor buffer, the autosave timer, the file panel *)
(* and the handlers that read and write them, and of the view: the tabs of *)
(* the mobile layout, the resize listener and the debounced rendering.     *)
(*                                                                         *)
(* Texts.  A diagram text is an atomic string; only its emptiness is ever  *)
(* inspected by the code.  A file name is a sequence of tokens, where " "  *)
(* is a whitespace character, "default" is the word default and any other  *)
(* token is a word; String.prototype.trim and === are computed on these    *)
(* sequences.  A timestamp new Date().toISOString() is the clock reading   *)
(* it was taken from (the conversion is injective and order preserving).   *)
(***************************************************************************)
EXTENDS Integers, Sequences, FiniteSets, TLC

VARIABLES
    lsDefault,      \* localStorage['plantuml-default']
    lsFiles,        \* localStorage['plantuml-files']
    editor,         \* the Ace editor buffer, editor.getValue()
    now,            \* the wall clock, Date.now()
    autoSaveTimer,  \* timerId of debouncedAutoSave is pending
    modalHidden,    \* fileModal.classList.contains('hidden')
    currentMode,    \* currentMode, 'save' or 'open'
    nameError,      \* the text #name-error shows, "" while it is hidden
    out,            \* what the last handler returned, alerted and logged
    vName,          \* validateFileName: the name argument
    vFiles,         \* validateFileName: the files argument
    vResult,        \* validateFileName: the returned object
    timeLeft,       \* ms until the pending timeout of debouncedAutoSave is due
    idle,           \* ms since the last 'change' event, up to the delay
    burst,          \* 'change' events since the timer was last found idle
    saves,          \* calls of the autosave callback since that burst began
    innerWidth,     \* window.innerWidth
    activeTab,      \* activeTab, 'code' or 'preview'
    sidePanelHidden,    \* #sidePanel (the editor) has the class 'hidden'
    mainPanelHidden,    \* main (the preview) has the class 'hidden'
    renderTimer,    \* timerId of debouncedRender is pending
    renderLeft,     \* ms until the pending timeout of debouncedRender is due
    renders,        \* calls of the render callback since the last 'change' event
    inflight,       \* the texts of the plantuml.renderPng promises not yet settled
    image,          \* the text that the image shown in #render-image was rendered from
    shareModalHidden,   \* #share-modal has the class 'hidden'
    shareModalTimer,    \* shareModalTimer !== null: the auto-dismiss timeout is pending
    shareLeft,      \* ms until the timeout of shareModalTimer is due
    shareShown,     \* ms since showShareNotification was last called, up to ShareDelay
    shows,          \* calls of showShareNotification since the modal was last hidden
    shareUrl,       \* the value of #share-url, a fragment
    shareMessage,   \* the message of the modal that is not hidden
    copying,        \* the URLs of the copyToClipboard promises not yet settled
    sContent,       \* the buffer of the page that shares, as code points
    hash,           \* window.location.hash of the page that starts
    sStored,        \* the 'plantuml-default' item of the page that starts
    sEditor,        \* the buffer of the page that starts, as code points
    loadedFromUrl,  \* loadedFromUrl
    sLog            \* what the start of the page has done, in its order

vars == <<lsDefault, lsFiles, editor, now, autoSaveTimer, modalHidden,
          currentMode, nameError, out, vName, vFiles, vResult,
          timeLeft, idle, burst, saves,
          innerWidth, activeTab, sidePanelHidden, mainPanelHidden,
          renderTimer, renderLeft, renders, inflight, image,
          shareModalHidden, shareModalTimer, shareLeft, shareShown, shows,
          shareUrl, shareMessage, copying,
          sContent, hash, sStored, sEditor, loadedFromUrl, sLog>>

appVars == <<lsDefault, lsFiles, editor, now, autoSaveTimer, modalHidden,
             currentMode, nameError, out>>

valVars == <<vName, vFiles, vResult>>

debVars == <<timeLeft, idle, burst, saves>>

tabVars == <<innerWidth, activeTab, sidePanelHidden, mainPanelHidden>>

renVars == <<renderTimer, renderLeft, renders, inflight, image>>

viewVars == <<tabVars, renVars>>

modalVars == <<shareModalHidden, shareModalTimer, shareLeft, shareShown, shows,
               shareUrl, shareMessage, copying>>

urlVars == <<sContent, hash, sStored, sEditor, loadedFromUrl, sLog>>

shareVars == <<modalVars, urlVars>>

----------------------------------------------------------------------------
(* Bounds of the model *)

MaxClock == 1       \* the clock readings are 0..MaxClock
MaxFiles == 2       \* saveFile is not called on a collection this long
MaxValFiles == 2    \* validateFileName is applied to collections up to this long
MaxBurst == 3       \* 'change' events that follow one another within the delay
MaxTextLen == 3     \* the length of a shared text, in code points
MaxFragLen == 3     \* the length of a fragment after '#/' or '#', in characters
MaxShows == 3       \* calls of showShareNotification on a modal that is shown
MaxCopies == 2      \* calls of copyToClipboard that have not settled

----------------------------------------------------------------------------
(* Values *)

\* the built-in seed diagram of loadDefaultFile
Seed == "@startuml\nBob -> Alice: Hello!\n@enduml"

\* the texts the user puts into the editor
Contents == {"", "@startuml\nA->B\n@enduml"}

\* the texts the user puts into the editor while the clock runs
ClockContents == {"", Seed}

\* what the user types into #file-name-input
NameInputs ==
    { <<>>, <<" ", " ">>, <<"default">>, <<" ", "default", " ">>,
      <<"A">>, <<" ", "A", " ">>, <<"B">> }

\* the suffix Math.random().toString(36).substring(2, 11)
RandomSuffixes == {"r1"}

\* how a localStorage.setItem call ends: it returns, or throws the named error
WriteOutcomes == {"ok", "QuotaExceededError", "Error"}

\* the outcomes of two setItem calls in a row; the second call is not made
\* when the first one throws
TwoWrites == {ws \in WriteOutcomes \X WriteOutcomes : ws[1] # "ok" => ws[2] = "ok"}

\* the delay of debouncedAutoSave, in ms
AutoSaveDelay == 2000

\* the default delay of debounce, which debouncedRender has, in ms
RenderDelay == 400

\* the delay of the timeout that closes the share modal, in ms
ShareDelay == 3000

\* the times, in ms, that pass between two events of the share modal
ShareSteps == {1000, 2000}

\* the times, in ms, that pass between two events of the page
ElapseSteps == {200, 400, 1000}

\* the width at and below which the layout is the mobile one
Breakpoint == 810

\* the widths of the window
Widths == {800, 810, 811}

\* no image has been rendered: #render-image is as the page has it
NoImage == "none"

DefaultId == <<"default">>
DefaultName == <<"default">>
MissingId == <<"file", 0, "gone">>

MsgEmpty == "File name cannot be empty"
MsgReserved == "Reserved file name"
MsgDuplicate == "File name already exists"
MsgSaveFailed == "Failed to save file"
MsgQuota == "LocalStorage quota exceeded. Please delete some old files to free up space."
MsgNoDelete == "Cannot delete the default file."

----------------------------------------------------------------------------
(* localStorage items and JSON *)

NoDefault == [present |-> FALSE, text |-> ""]
DefaultItem(text) == [present |-> TRUE, text |-> text]

\* JSON.stringify of an array of file objects: every field is a string, so
\* the text determines the array
JSONstringify(files) == [kind |-> "array", items |-> files]

\* JSON.parse of a text written by JSON.stringify
JSONparse(json) == json.items

NoFiles == [present |-> FALSE, json |-> [kind |-> "none", items |-> <<>>]]
FilesItem(json) == [present |-> TRUE, json |-> json]

\* a text that JSON.parse rejects with a SyntaxError
MalformedJson == [kind |-> "malformed", items |-> <<>>]

\* a text that JSON.parse accepts and that is no array, such as '{}': the
\* value has no length and none of the Array methods
ObjectJson == [kind |-> "object", items |-> <<>>]

\* whether the value getAllFiles returns is an array
isArray(filesItem) == ~(filesItem.present /\ filesItem.json.kind = "object")

\* Array.prototype.findIndex(f => f.id === id), 1-based, 0 when there is none
RECURSIVE findIndexFrom(_, _, _)
findIndexFrom(files, id, i) ==
    IF i > Len(files) THEN 0
    ELSE IF files[i].id = id THEN i
    ELSE findIndexFrom(files, id, i + 1)

findIndex(files, id) == findIndexFrom(files, id, 1)

\* Array.prototype.filter(f => f.id !== id)
RECURSIVE filterOut(_, _)
filterOut(files, id) ==
    IF files = <<>> THEN <<>>
    ELSE IF Head(files).id # id
         THEN <<Head(files)>> \o filterOut(Tail(files), id)
         ELSE filterOut(Tail(files), id)

\* String.prototype.trim on a name
RECURSIVE trimStart(_)
trimStart(name) ==
    IF name # <<>> /\ Head(name) = " " THEN trimStart(Tail(name)) ELSE name

RECURSIVE trimEnd(_)
trimEnd(name) ==
    IF name # <<>> /\ name[Len(name)] = " "
    THEN trimEnd(SubSeq(name, 1, Len(name) - 1))
    ELSE name

trim(name) == trimEnd(trimStart(name))

----------------------------------------------------------------------------
(* FILE MANAGEMENT - LocalStorage utility functions *)

\* the catch gives [] for a text that does not parse; for a parsed value that
\* is no array, which the callers get as it is, see isArray
getAllFiles(filesItem) ==
    IF filesItem.present /\ filesItem.json.kind = "array"
    THEN JSONparse(filesItem.json)
    ELSE <<>>

\* returns the new 'plantuml-files' item and the alerts shown
saveAllFiles(filesItem, files, w) ==
    IF w = "ok"
    THEN [files |-> FilesItem(JSONstringify(files)), alerts |-> <<>>]
    ELSE [files |-> filesItem,
          alerts |-> IF w = "QuotaExceededError" THEN <<MsgQuota>> ELSE <<>>]

\* saveDefaultFile that appends a new default file (push for unshift)
saveDefaultFile_Push(defaultItem, filesItem, content, t, w1, w2) ==
    IF w1 # "ok"
    THEN [default |-> defaultItem, files |-> filesItem, alerts |-> <<>>,
          writes |-> <<w1>>]
    ELSE LET files == getAllFiles(filesItem)
             defaultFileIndex == findIndex(files, DefaultId)
             updated ==
                 IF defaultFileIndex > 0
                 THEN [files EXCEPT ![defaultFileIndex].content = content,
                                    ![defaultFileIndex].lastModified = t]
                 ELSE Append(files,
                             [id |-> DefaultId, name |-> DefaultName,
                              content |-> content, createdAt |-> t,
                              lastModified |-> t])
             saved == saveAllFiles(filesItem, updated, w2)
         IN  [default |-> DefaultItem(content), files |-> saved.files,
              alerts |-> saved.alerts, writes |-> <<w1, w2>>]

\* saveDefaultFile that takes the first entry of a collection for the default
\* file (files[0] for files[defaultFileIndex])
saveDefaultFile_FirstEntry(defaultItem, filesItem, content, t, w1, w2) ==
    IF w1 # "ok"
    THEN [default |-> defaultItem, files |-> filesItem, alerts |-> <<>>,
          writes |-> <<w1>>]
    ELSE LET files == getAllFiles(filesItem)
             updated ==
                 IF Len(files) > 0
                 THEN [files EXCEPT ![1].content = content,
                                    ![1].lastModified = t]
                 ELSE << [id |-> DefaultId, name |-> DefaultName, content |-> content,
                          createdAt |-> t, lastModified |-> t] >>
             saved == saveAllFiles(filesItem, updated, w2)
         IN  [default |-> DefaultItem(content), files |-> saved.files,
              alerts |-> saved.alerts, writes |-> <<w1, w2>>]

\* saveDefaultFile that stamps createdAt on every save of the default file
saveDefaultFile_TouchCreated(defaultItem, filesItem, content, t, w1, w2) ==
    IF w1 # "ok"
    THEN [default |-> defaultItem, files |-> filesItem, alerts |-> <<>>,
          writes |-> <<w1>>]
    ELSE LET files == getAllFiles(filesItem)
             defaultFileIndex == findIndex(files, DefaultId)
             updated ==
                 IF defaultFileIndex > 0
                 THEN [files EXCEPT ![defaultFileIndex].content = content,
                                    ![defaultFileIndex].createdAt = t,
                                    ![defaultFileIndex].lastModified = t]
                 ELSE << [id |-> DefaultId, name |-> DefaultName, content |-> content,
                          createdAt |-> t, lastModified |-> t] >> \o files
             saved == saveAllFiles(filesItem, updated, w2)
         IN  [default |-> DefaultItem(content), files |-> saved.files,
              alerts |-> saved.alerts, writes |-> <<w1, w2>>]

\* saveDefaultFile that adds a default file on every save (no findIndex)
saveDefaultFile_AlwaysUnshift(defaultItem, filesItem, content, t, w1, w2) ==
    IF w1 # "ok"
    THEN [default |-> defaultItem, files |-> filesItem, alerts |-> <<>>,
          writes |-> <<w1>>]
    ELSE LET files == getAllFiles(filesItem)
             updated ==
                 << [id |-> DefaultId, name |-> DefaultName, content |-> content,
                     createdAt |-> t, lastModified |-> t] >> \o files
             saved == saveAllFiles(filesItem, updated, w2)
         IN  [default |-> DefaultItem(content), files |-> saved.files,
              alerts |-> saved.alerts, writes |-> <<w1, w2>>]

\* saveDefaultFile that writes the metadata only (no setItem of the
\* fast-path key)
saveDefaultFile_MetadataOnly(defaultItem, filesItem, content, t, w1, w2) ==
    IF w1 # "ok"
    THEN [default |-> defaultItem, files |-> filesItem, alerts |-> <<>>,
          writes |-> <<w1>>]
    ELSE LET files == getAllFiles(filesItem)
             defaultFileIndex == findIndex(files, DefaultId)
             updated ==
                 IF defaultFileIndex > 0
                 THEN [files EXCEPT ![defaultFileIndex].content = content,
                                    ![defaultFileIndex].lastModified = t]
                 ELSE << [id |-> DefaultId, name |-> DefaultName, content |-> content,
                          createdAt |-> t, lastModified |-> t] >> \o files
             saved == saveAllFiles(filesItem, updated, w2)
         IN  [default |-> defaultItem, files |-> saved.files,
              alerts |-> saved.alerts, writes |-> <<w1, w2>>]

\* w1, w2: the outcomes of the two setItem calls, t: the clock; on a value
\* that is no array files.findIndex throws into the catch
saveDefaultFile(defaultItem, filesItem, content, t, w1, w2) ==
    IF w1 # "ok"
    THEN [default |-> defaultItem, files |-> filesItem, alerts |-> <<>>,
          writes |-> <<w1>>]
    ELSE IF ~isArray(filesItem)
    THEN [default |-> DefaultItem(content), files |-> filesItem, alerts |-> <<>>,
          writes |-> <<w1>>]
    ELSE LET files == getAllFiles(filesItem)
             defaultFileIndex == findIndex(files, DefaultId)
             updated ==
                 IF defaultFileIndex > 0
                 THEN [files EXCEPT ![defaultFileIndex].content = content,
                                    ![defaultFileIndex].lastModified = t]
                 ELSE << [id |-> DefaultId, name |-> DefaultName, content |-> content,
                          createdAt |-> t, lastModified |-> t] >> \o files
             saved == saveAllFiles(filesItem, updated, w2)
         IN  [default |-> DefaultItem(content), files |-> saved.files,
              alerts |-> saved.alerts, writes |-> <<w1, w2>>]

loadDefaultFile(defaultItem) ==
    IF defaultItem.present /\ defaultItem.text # "" THEN defaultItem.text ELSE Seed

\* saveFile whose id is 'file-' and the random suffix, without Date.now()
saveFile_NoTimestamp(filesItem, name, content, t, r, w) ==
    LET files == getAllFiles(filesItem)
        newFile == [id |-> <<"file", 0, r>>, name |-> name, content |-> content,
                    createdAt |-> t, lastModified |-> t]
        saved == saveAllFiles(filesItem, Append(files, newFile), w)
    IN  IF ~isArray(filesItem)
        THEN [files |-> filesItem, ret |-> FALSE, file |-> newFile,
              alerts |-> <<>>, writes |-> <<>>]
        ELSE [files |-> saved.files, ret |-> TRUE, file |-> newFile,
              alerts |-> saved.alerts, writes |-> <<w>>]

\* r: the random suffix of the id, w: the outcome of the setItem call; on a
\* value that is no array files.push throws into the catch, which returns null
saveFile(filesItem, name, content, t, r, w) ==
    LET files == getAllFiles(filesItem)
        newFile == [id |-> <<"file", t, r>>, name |-> name, content |-> content,
                    createdAt |-> t, lastModified |-> t]
        saved == saveAllFiles(filesItem, Append(files, newFile), w)
    IN  IF ~isArray(filesItem)
        THEN [files |-> filesItem, ret |-> FALSE, file |-> newFile,
              alerts |-> <<>>, writes |-> <<>>]
        ELSE [files |-> saved.files, ret |-> TRUE, file |-> newFile,
              alerts |-> saved.alerts, writes |-> <<w>>]

\* deleteFile without the guard on the default file
deleteFile_NoGuard(filesItem, fileId, w) ==
    LET files == getAllFiles(filesItem)
        filteredFiles == filterOut(files, fileId)
    IN  IF Len(filteredFiles) = Len(files)
        THEN [files |-> filesItem, ret |-> FALSE, alerts |-> <<>>,
              warns |-> <<"File not found:">>, writes |-> <<>>]
        ELSE LET saved == saveAllFiles(filesItem, filteredFiles, w)
             IN  [files |-> saved.files, ret |-> TRUE, alerts |-> saved.alerts,
                  warns |-> <<>>, writes |-> <<w>>]

\* deleteFile that alerts and then goes on to delete the default file
deleteFile_AlertOnly(filesItem, fileId, w) ==
    LET deleted == deleteFile_NoGuard(filesItem, fileId, w)
    IN  IF fileId = DefaultId
        THEN [deleted EXCEPT !.alerts = <<MsgNoDelete>> \o deleted.alerts]
        ELSE deleted

\* on a value that is no array files.filter throws into the catch
deleteFile(filesItem, fileId, w) ==
    IF fileId = DefaultId
    THEN [files |-> filesItem, ret |-> FALSE, alerts |-> <<MsgNoDelete>>,
          warns |-> <<>>, writes |-> <<>>]
    ELSE IF ~isArray(filesItem)
    THEN [files |-> filesItem, ret |-> FALSE, alerts |-> <<>>,
          warns |-> <<>>, writes |-> <<>>]
    ELSE LET files == getAllFiles(filesItem)
             filteredFiles == filterOut(files, fileId)
         IN  IF Len(filteredFiles) = Len(files)
             THEN [files |-> filesItem, ret |-> FALSE, alerts |-> <<>>,
                   warns |-> <<"File not found:">>, writes |-> <<>>]
             ELSE LET saved == saveAllFiles(filesItem, filteredFiles, w)
                  IN  [files |-> saved.files, ret |-> TRUE, alerts |-> saved.alerts,
                       warns |-> <<>>, writes |-> <<w>>]

\* loadFileIntoEditor without editor.setValue: the buffer keeps its text
loadFileIntoEditor_KeepBuffer(defaultItem, filesItem, buffer, fileId, t, w1, w2) ==
    LET files == getAllFiles(filesItem)
        i == findIndex(files, fileId)
    IN  IF ~isArray(filesItem)
        THEN [default |-> defaultItem, files |-> filesItem, editor |-> buffer,
              changed |-> FALSE, ret |-> FALSE, alerts |-> <<>>,
              warns |-> <<>>, writes |-> <<>>]
        ELSE IF i = 0
        THEN [default |-> defaultItem, files |-> filesItem, editor |-> buffer,
              changed |-> FALSE, ret |-> FALSE, alerts |-> <<>>,
              warns |-> <<"File not found:">>, writes |-> <<>>]
        ELSE LET file == files[i]
                 saved == saveDefaultFile(defaultItem, filesItem, file.content, t, w1, w2)
             IN  [default |-> saved.default, files |-> saved.files,
                  editor |-> buffer,
                  changed |-> FALSE,
                  ret |-> TRUE, alerts |-> saved.alerts,
                  warns |-> <<>>, writes |-> saved.writes]

\* returns also the new editor buffer and whether the editor emitted 'change';
\* on a value that is no array files.find throws into the catch
loadFileIntoEditor(defaultItem, filesItem, buffer, fileId, t, w1, w2) ==
    LET files == getAllFiles(filesItem)
        i == findIndex(files, fileId)
    IN  IF ~isArray(filesItem)
        THEN [default |-> defaultItem, files |-> filesItem, editor |-> buffer,
              changed |-> FALSE, ret |-> FALSE, alerts |-> <<>>,
              warns |-> <<>>, writes |-> <<>>]
        ELSE IF i = 0
        THEN [default |-> defaultItem, files |-> filesItem, editor |-> buffer,
              changed |-> FALSE, ret |-> FALSE, alerts |-> <<>>,
              warns |-> <<"File not found:">>, writes |-> <<>>]
        ELSE LET file == files[i]
                 saved == saveDefaultFile(defaultItem, filesItem, file.content, t, w1, w2)
             IN  [default |-> saved.default, files |-> saved.files,
                  editor |-> file.content,
                  changed |-> (buffer # "" \/ file.content # ""),
                  ret |-> TRUE, alerts |-> saved.alerts,
                  warns |-> <<>>, writes |-> saved.writes]

\* Array.prototype.some(f => f.name === name)
someName(files, name) == \E i \in 1..Len(files) : files[i].name = name

\* validateFileName without the check for an existing name
validateFileName_NoDuplicateCheck(name, files) ==
    IF name = <<>> \/ trim(name) = <<>>
    THEN [valid |-> FALSE, error |-> MsgEmpty]
    ELSE IF name = DefaultName
    THEN [valid |-> FALSE, error |-> MsgReserved]
    ELSE [valid |-> TRUE, error |-> ""]

\* validateFileName with the existing-name check ahead of the reserved-name check
validateFileName_DuplicateFirst(name, files) ==
    IF name = <<>> \/ trim(name) = <<>>
    THEN [valid |-> FALSE, error |-> MsgEmpty]
    ELSE IF someName(files, name)
    THEN [valid |-> FALSE, error |-> MsgDuplicate]
    ELSE IF name = DefaultName
    THEN [valid |-> FALSE, error |-> MsgReserved]
    ELSE [valid |-> TRUE, error |-> ""]

validateFileName(name, files) ==
    IF name = <<>> \/ trim(name) = <<>>
    THEN [valid |-> FALSE, error |-> MsgEmpty]
    ELSE IF name = DefaultName
    THEN [valid |-> FALSE, error |-> MsgReserved]
    ELSE IF someName(files, name)
    THEN [valid |-> FALSE, error |-> MsgDuplicate]
    ELSE [valid |-> TRUE, error |-> ""]

----------------------------------------------------------------------------
(* The state after the page has loaded on an empty store *)

\* op: the handler (none for an event that calls no function of interest),
\* ret: whether the value it got back from the repository function was
\* truthy, alerts: the alert() texts, warns: the console.warn texts, writes:
\* how its setItem calls ended, rerendered: it called renderFileList after
\* the repository function, uncaught: it ended in an error that nothing
\* catches
\* renderPng: the texts it passed to plantuml.renderPng, steps: the calls it
\* made, in their order
NoOut == [op |-> "none", ret |-> FALSE, alerts |-> <<>>, warns |-> <<>>,
          writes |-> <<>>, rerendered |-> FALSE, uncaught |-> FALSE,
          renderPng |-> <<>>, steps |-> <<>>]

Out(op) == [NoOut EXCEPT !.op = op]

NoNameError == ""

AppInit ==
    /\ lsDefault = NoDefault
    /\ lsFiles = NoFiles
    /\ editor = loadDefaultFile(NoDefault)
    /\ now = 0
    /\ autoSaveTimer = FALSE
    /\ modalHidden = TRUE
    /\ currentMode = "open"
    /\ nameError = NoNameError
    /\ out = NoOut

ValIdle ==
    /\ vName = <<>>
    /\ vFiles = <<>>
    /\ vResult = [valid |-> FALSE, error |-> "not called"]

\* no 'change' event yet
DebIdle ==
    /\ timeLeft = 0
    /\ idle = 0
    /\ burst = 0
    /\ saves = 0

\* initializeTabs: on a mobile width switchTab('code'), else both panels shown
TabsInit(width) ==
    /\ innerWidth = width
    /\ activeTab = "code"
    /\ sidePanelHidden = FALSE
    /\ mainPanelHidden = (width <= Breakpoint)

\* the startup callback has called debouncedRender() for the initial render
RenderInit ==
    /\ renderTimer = TRUE
    /\ renderLeft = RenderDelay
    /\ renders = 0
    /\ inflight = {}
    /\ image = NoImage

\* the page on a desktop window
ViewIdle == TabsInit(811) /\ RenderInit

\* let shareModalTimer = null, and the modal hidden as index.html has it
ModalIdle ==
    /\ shareModalHidden = TRUE
    /\ shareModalTimer = FALSE
    /\ shareLeft = 0
    /\ shareShown = 0
    /\ shows = 0
    /\ shareUrl = <<>>
    /\ shareMessage = "none"
    /\ copying = <<>>

\* no page is being shared or started from a fragment
UrlIdle ==
    /\ sContent = <<>>
    /\ hash = <<>>
    /\ sStored = [present |-> FALSE, text |-> <<>>]
    /\ sEditor = <<>>
    /\ loadedFromUrl = FALSE
    /\ sLog = <<>>

ShareIdle == ModalIdle /\ UrlIdle

Init == AppInit /\ ValIdle /\ DebIdle /\ ViewIdle /\ ShareIdle

\* the page at rest, while validateFileName is applied on its own
AppIdle == AppInit

\* a file object of a collection validateFileName is applied to
ValFile(id, name) ==
    [id |-> id, name |-> name, content |-> Seed, createdAt |-> 0, lastModified |-> 0]

ValCandidates ==
    { ValFile(DefaultId, DefaultName), ValFile(<<"file", 0, "r1">>, <<"A">>),
      ValFile(<<"file", 0, "r2">>, <<"B">>) }

\* the collections the page can hold: names differ, the default file leads
RECURSIVE SeqsUpTo(_, _)
SeqsUpTo(S, n) ==
    IF n = 0 THEN {<<>>}
    ELSE LET shorter == SeqsUpTo(S, n - 1)
         IN  shorter \cup {Append(q, x) : q \in shorter, x \in S}

ValCollections ==
    { q \in SeqsUpTo(ValCandidates, MaxValFiles) :
        /\ \A i, j \in 1..Len(q) : i # j => q[i].name # q[j].name
        /\ \A i \in 1..Len(q) : q[i].id = DefaultId => i = 1 }

ValInit ==
    /\ AppIdle
    /\ DebIdle
    /\ ViewIdle
    /\ ShareIdle
    /\ vName \in NameInputs
    /\ vFiles \in ValCollections
    /\ vResult = [valid |-> FALSE, error |-> "not called"]

----------------------------------------------------------------------------
(* The events of the page *)

\* the clock advances
Tick ==
    /\ now < MaxClock
    /\ now' = now + 1
    /\ UNCHANGED <<lsDefault, lsFiles, editor, autoSaveTimer, modalHidden,
                   currentMode, nameError, out>>
    /\ UNCHANGED valVars
    /\ UNCHANGED debVars
    /\ UNCHANGED viewVars
    /\ UNCHANGED shareVars

\* a 'change' listener that stops arming the timer once a save has failed
onChange_StopAfterFailure(text) ==
    /\ text # editor
    /\ editor' = text
    /\ autoSaveTimer' = (\A i \in 1..Len(out.writes) : out.writes[i] = "ok")
    /\ out' = NoOut
    /\ UNCHANGED <<lsDefault, lsFiles, now, modalHidden, currentMode, nameError>>
    /\ UNCHANGED valVars

\* the user edits the buffer; the 'change' listener arms debouncedAutoSave
onChange(text) ==
    /\ text # editor
    /\ editor' = text
    /\ autoSaveTimer' = TRUE
    /\ out' = NoOut
    /\ UNCHANGED <<lsDefault, lsFiles, now, modalHidden, currentMode, nameError>>
    /\ UNCHANGED valVars

\* a 'change' event at an unspecified time
EditorChange(text) ==
    /\ onChange(text)
    /\ UNCHANGED debVars
    /\ UNCHANGED viewVars
    /\ UNCHANGED shareVars

\* an autosave callback that empties the editor when the save failed
autoSaveCallback_ClearOnFailure(w1, w2) ==
    /\ autoSaveTimer
    /\ LET saved == saveDefaultFile(lsDefault, lsFiles, editor, now, w1, w2)
       IN  /\ lsDefault' = saved.default
           /\ lsFiles' = saved.files
           /\ out' = [Out("debouncedAutoSave") EXCEPT
                          !.alerts = saved.alerts, !.writes = saved.writes]
    /\ autoSaveTimer' = FALSE
    /\ editor' = IF w1 = "ok" /\ w2 = "ok" THEN editor ELSE ""
    /\ UNCHANGED <<now, modalHidden, currentMode, nameError>>
    /\ UNCHANGED valVars

\* the callback of debouncedAutoSave, run by its timeout
autoSaveCallback(w1, w2) ==
    /\ autoSaveTimer
    /\ LET saved == saveDefaultFile(lsDefault, lsFiles, editor, now, w1, w2)
       IN  /\ lsDefault' = saved.default
           /\ lsFiles' = saved.files
           /\ out' = [Out("debouncedAutoSave") EXCEPT
                          !.alerts = saved.alerts, !.writes = saved.writes]
    /\ autoSaveTimer' = FALSE
    /\ UNCHANGED <<editor, now, modalHidden, currentMode, nameError>>
    /\ UNCHANGED valVars

\* the timer of debouncedAutoSave fires, at an unspecified time after the
\* 'change' event that armed it
AutoSaveFire(w1, w2) ==
    /\ autoSaveCallback(w1, w2)
    /\ UNCHANGED debVars
    /\ UNCHANGED viewVars
    /\ UNCHANGED shareVars

\* whether renderFileList ends in a TypeError: on a value that is no array
\* files.length === 0 is false and files.map is not a function
renderFileListThrows(filesItem) == ~isArray(filesItem)

\* renderFileList with a Delete button in every row
renderFileList_DeleteForAll(filesItem) ==
    LET files == getAllFiles(filesItem)
    IN  [i \in 1..Len(files) |->
            [id |-> files[i].id, name |-> files[i].name,
             delete |-> TRUE,
             open |-> IF files[i].id = DefaultId THEN "Reload" ELSE "Open"]]

\* the rows that renderFileList puts into #file-list, one for each file, with
\* the buttons of each: delete, whether it has the Delete button, and open,
\* the label of its button that calls handleOpenFile; no row stands for
\* 'No files saved yet'
renderFileList(filesItem) ==
    LET files == getAllFiles(filesItem)
    IN  [i \in 1..Len(files) |->
            [id |-> files[i].id, name |-> files[i].name,
             delete |-> files[i].id # DefaultId,
             open |-> IF files[i].id = DefaultId THEN "Reload" ELSE "Open"]]

\* renderFileList is its last statement
openFilePanel(mode) ==
    /\ currentMode' = mode
    /\ modalHidden' = FALSE
    /\ nameError' = NoNameError
    /\ out' = [NoOut EXCEPT !.uncaught = renderFileListThrows(lsFiles)]
    /\ UNCHANGED <<lsDefault, lsFiles, editor, now, autoSaveTimer>>
    /\ UNCHANGED valVars
    /\ UNCHANGED debVars
    /\ UNCHANGED viewVars
    /\ UNCHANGED shareVars

\* the close buttons and the Escape key, which act on a visible modal
closeModal ==
    /\ ~modalHidden
    /\ modalHidden' = TRUE
    /\ currentMode' = "open"
    /\ nameError' = NoNameError
    /\ out' = NoOut
    /\ UNCHANGED <<lsDefault, lsFiles, editor, now, autoSaveTimer>>
    /\ UNCHANGED valVars
    /\ UNCHANGED debVars
    /\ UNCHANGED viewVars
    /\ UNCHANGED shareVars

\* handleSaveAs without the return that ends a refused save-as
handleSaveAs_NoReturn(input, r, w) ==
    /\ ~modalHidden
    /\ currentMode = "save"
    /\ LET name == trim(input)
           files == getAllFiles(lsFiles)
           newFile == saveFile(lsFiles, name, editor, now, r, w)
       IN  /\ Len(files) < MaxFiles
           /\ lsFiles' = newFile.files
           /\ out' = [Out("handleSaveAs") EXCEPT
                          !.ret = newFile.ret, !.alerts = newFile.alerts,
                          !.writes = newFile.writes]
           /\ modalHidden' = TRUE
           /\ currentMode' = "open"
           /\ nameError' = NoNameError
    /\ UNCHANGED <<lsDefault, editor, now, autoSaveTimer>>
    /\ UNCHANGED valVars
    /\ UNCHANGED debVars
    /\ UNCHANGED viewVars
    /\ UNCHANGED shareVars

\* handleSaveAs that saves the stored default file instead of the buffer
handleSaveAs_FromStore(input, r, w) ==
    /\ ~modalHidden
    /\ currentMode = "save"
    /\ LET name == trim(input)
           files == getAllFiles(lsFiles)
           validation == validateFileName(name, files)
       IN  IF ~validation.valid
           THEN /\ nameError' = validation.error
                /\ out' = Out("handleSaveAs")
                /\ UNCHANGED <<lsFiles, modalHidden, currentMode>>
           ELSE IF ~isArray(lsFiles)
           THEN /\ out' = [Out("handleSaveAs") EXCEPT !.uncaught = TRUE]
                /\ UNCHANGED <<lsFiles, modalHidden, currentMode, nameError>>
           ELSE /\ Len(files) < MaxFiles
                /\ LET newFile == saveFile(lsFiles, name, loadDefaultFile(lsDefault), now, r, w)
                   IN  /\ lsFiles' = newFile.files
                       /\ out' = [Out("handleSaveAs") EXCEPT
                                      !.ret = newFile.ret,
                                      !.alerts = newFile.alerts,
                                      !.writes = newFile.writes]
                       /\ IF newFile.ret
                          THEN /\ modalHidden' = TRUE
                               /\ currentMode' = "open"
                               /\ nameError' = NoNameError
                          ELSE /\ nameError' = MsgSaveFailed
                               /\ UNCHANGED <<modalHidden, currentMode>>
    /\ UNCHANGED <<lsDefault, editor, now, autoSaveTimer>>
    /\ UNCHANGED valVars
    /\ UNCHANGED debVars
    /\ UNCHANGED viewVars
    /\ UNCHANGED shareVars

\* Enter in #file-name-input, which is shown in save mode only; on a value
\* that is no array validateFileName passes its two checks of the name and
\* ends in the TypeError of files.some, which nothing catches
handleSaveAs(input, r, w) ==
    /\ ~modalHidden
    /\ currentMode = "save"
    /\ LET name == trim(input)
           files == getAllFiles(lsFiles)
           validation == validateFileName(name, files)
       IN  IF ~validation.valid
           THEN /\ nameError' = validation.error
                /\ out' = Out("handleSaveAs")
                /\ UNCHANGED <<lsFiles, modalHidden, currentMode>>
           ELSE IF ~isArray(lsFiles)
           THEN /\ out' = [Out("handleSaveAs") EXCEPT !.uncaught = TRUE]
                /\ UNCHANGED <<lsFiles, modalHidden, currentMode, nameError>>
           ELSE /\ Len(files) < MaxFiles
                /\ LET newFile == saveFile(lsFiles, name, editor, now, r, w)
                   IN  /\ lsFiles' = newFile.files
                       /\ out' = [Out("handleSaveAs") EXCEPT
                                      !.ret = newFile.ret,
                                      !.alerts = newFile.alerts,
                                      !.writes = newFile.writes]
                       /\ IF newFile.ret
                          THEN /\ modalHidden' = TRUE
                               /\ currentMode' = "open"
                               /\ nameError' = NoNameError
                          ELSE /\ nameError' = MsgSaveFailed
                               /\ UNCHANGED <<modalHidden, currentMode>>
    /\ UNCHANGED <<lsDefault, editor, now, autoSaveTimer>>
    /\ UNCHANGED valVars
    /\ UNCHANGED debVars
    /\ UNCHANGED viewVars
    /\ UNCHANGED shareVars

\* the ids of the stored collection
StoredIds == {getAllFiles(lsFiles)[i].id : i \in 1..Len(getAllFiles(lsFiles))}

\* the ids a button of the list, or a caller of the global handler, passes
FileIds == StoredIds \cup {DefaultId, MissingId}

\* handleOpenFile that calls debouncedRender() before closeModal()
handleOpenFile_RenderFirst(fileId, w1, w2) ==
    /\ ~modalHidden
    /\ LET loaded == loadFileIntoEditor(lsDefault, lsFiles, editor, fileId, now, w1, w2)
       IN  /\ lsDefault' = loaded.default
           /\ lsFiles' = loaded.files
           /\ editor' = loaded.editor
           /\ autoSaveTimer' = (autoSaveTimer \/ loaded.changed)
           /\ out' = [Out("handleOpenFile") EXCEPT
                          !.ret = loaded.ret, !.alerts = loaded.alerts,
                          !.warns = loaded.warns, !.writes = loaded.writes,
                          !.steps = IF loaded.ret
                                    THEN <<"loadFileIntoEditor", "debouncedRender", "closeModal">>
                                    ELSE <<"loadFileIntoEditor">>]
           /\ IF loaded.ret
              THEN /\ modalHidden' = TRUE
                   /\ currentMode' = "open"
                   /\ nameError' = NoNameError
              ELSE UNCHANGED <<modalHidden, currentMode, nameError>>
    /\ UNCHANGED now
    /\ UNCHANGED valVars
    /\ UNCHANGED debVars
    /\ UNCHANGED viewVars
    /\ UNCHANGED shareVars

\* a click on Open or Reload in a row of the list
handleOpenFile(fileId, w1, w2) ==
    /\ ~modalHidden
    /\ LET loaded == loadFileIntoEditor(lsDefault, lsFiles, editor, fileId, now, w1, w2)
       IN  /\ lsDefault' = loaded.default
           /\ lsFiles' = loaded.files
           /\ editor' = loaded.editor
           /\ autoSaveTimer' = (autoSaveTimer \/ loaded.changed)
           /\ out' = [Out("handleOpenFile") EXCEPT
                          !.ret = loaded.ret, !.alerts = loaded.alerts,
                          !.warns = loaded.warns, !.writes = loaded.writes,
                          !.steps = IF loaded.ret
                                    THEN <<"loadFileIntoEditor", "closeModal", "debouncedRender">>
                                    ELSE <<"loadFileIntoEditor">>]
           /\ IF loaded.ret
              THEN /\ modalHidden' = TRUE
                   /\ currentMode' = "open"
                   /\ nameError' = NoNameError
              ELSE UNCHANGED <<modalHidden, currentMode, nameError>>
    /\ UNCHANGED now
    /\ UNCHANGED valVars
    /\ UNCHANGED debVars
    /\ UNCHANGED viewVars
    /\ UNCHANGED shareVars

\* handleDeleteFile that deletes whatever the answer to confirm is
handleDeleteFile_NoConfirm(fileId, confirmed, w) ==
    /\ ~modalHidden
    /\ IF TRUE
       THEN LET deleted == deleteFile(lsFiles, fileId, w)
            IN  /\ lsFiles' = deleted.files
                /\ out' = [Out("handleDeleteFile") EXCEPT
                               !.ret = deleted.ret, !.alerts = deleted.alerts,
                               !.warns = deleted.warns, !.writes = deleted.writes,
                               !.rerendered = deleted.ret,
                               !.steps = IF deleted.ret
                                         THEN <<"confirm", "deleteFile", "renderFileList">>
                                         ELSE <<"confirm", "deleteFile">>]
       ELSE /\ out' = [Out("handleDeleteFile") EXCEPT !.steps = <<"confirm">>]
            /\ UNCHANGED lsFiles
    /\ UNCHANGED <<lsDefault, editor, now, autoSaveTimer, modalHidden, currentMode,
                   nameError>>
    /\ UNCHANGED valVars
    /\ UNCHANGED debVars
    /\ UNCHANGED viewVars
    /\ UNCHANGED shareVars

\* confirmed: the answer to confirm('Are you sure you want to delete this file?')
handleDeleteFile(fileId, confirmed, w) ==
    /\ ~modalHidden
    /\ IF confirmed
       THEN LET deleted == deleteFile(lsFiles, fileId, w)
            IN  /\ lsFiles' = deleted.files
                /\ out' = [Out("handleDeleteFile") EXCEPT
                               !.ret = deleted.ret, !.alerts = deleted.alerts,
                               !.warns = deleted.warns, !.writes = deleted.writes,
                               !.rerendered = deleted.ret,
                               !.steps = IF deleted.ret
                                         THEN <<"confirm", "deleteFile", "renderFileList">>
                                         ELSE <<"confirm", "deleteFile">>]
       ELSE /\ out' = [Out("handleDeleteFile") EXCEPT !.steps = <<"confirm">>]
            /\ UNCHANGED lsFiles
    /\ UNCHANGED <<lsDefault, editor, now, autoSaveTimer, modalHidden, currentMode,
                   nameError>>
    /\ UNCHANGED valVars
    /\ UNCHANGED debVars
    /\ UNCHANGED viewVars
    /\ UNCHANGED shareVars

\* the page is loaded again: initializeDefaultFile fills the editor before the
\* change listener is attached; timers and the DOM start afresh
PageLoad ==
    /\ editor' = loadDefaultFile(lsDefault)
    /\ autoSaveTimer' = FALSE
    /\ modalHidden' = TRUE
    /\ currentMode' = "open"
    /\ nameError' = NoNameError
    /\ out' = NoOut
    /\ UNCHANGED <<lsDefault, lsFiles, now>>
    /\ UNCHANGED valVars
    /\ UNCHANGED debVars
    /\ UNCHANGED viewVars
    /\ UNCHANGED shareVars

\* The outcome of a setItem call is an input of a handler only on the paths
\* that make the call; elsewhere it is fixed, the handler not reading it.
\* W: the outcomes the environment can produce.
WritesOfSaveAs(input, W) ==
    IF validateFileName(trim(input), getAllFiles(lsFiles)).valid THEN W ELSE {"ok"}

WritesOfOpen(fileId, W) ==
    IF fileId \in StoredIds
    THEN {ws \in TwoWrites : ws[1] \in W /\ ws[2] \in W}
    ELSE {<<"ok", "ok">>}

WritesOfDelete(fileId, confirmed, W) ==
    IF confirmed /\ fileId # DefaultId /\ fileId \in StoredIds THEN W ELSE {"ok"}

\* the events of the page other than the passing of time; T: the texts the
\* user types
Events(W, T) ==
    \/ \E text \in T : EditorChange(text)
    \/ \E ws \in WritesOfOpen(DefaultId, W) : AutoSaveFire(ws[1], ws[2])
    \/ \E mode \in {"save", "open"} : openFilePanel(mode)
    \/ closeModal
    \/ \E input \in NameInputs, r \in RandomSuffixes :
           \E w \in WritesOfSaveAs(input, W) : handleSaveAs(input, r, w)
    \/ \E fileId \in FileIds :
           \E ws \in WritesOfOpen(fileId, W) : handleOpenFile(fileId, ws[1], ws[2])
    \/ \E fileId \in FileIds, confirmed \in BOOLEAN :
           \E w \in WritesOfDelete(fileId, confirmed, W) :
               handleDeleteFile(fileId, confirmed, w)
    \/ PageLoad

\* The timestamps are written and never read by the code, so the clock and
\* the failures of the store are explored apart: Spec lets every setItem
\* call fail and keeps the clock at its first reading, SpecClock lets the
\* clock run over a store that accepts every write, under a user who types
\* the seed diagram or nothing.  The tabs and the rendering are followed in
\* SpecTabs, and the two timers in time in SpecDebounce: here the window keeps
\* its desktop width and the timer of debouncedRender, which is pending since
\* the startup and set again by every 'change' event and every open, is left
\* pending.
Next == Events(WriteOutcomes, Contents)

Spec == Init /\ [][Next]_vars

NextClock == Tick \/ Events({"ok"}, ClockContents)

SpecClock == Init /\ [][NextClock]_vars

\* The page is loaded on a store whose 'plantuml-files' item was not written
\* by this code: a text that does not parse, or one that parses to a value
\* that is no array.
CorruptInit ==
    /\ lsDefault = NoDefault
    /\ lsFiles \in {FilesItem(MalformedJson), FilesItem(ObjectJson)}
    /\ editor = loadDefaultFile(NoDefault)
    /\ now = 0
    /\ autoSaveTimer = FALSE
    /\ modalHidden = TRUE
    /\ currentMode = "open"
    /\ nameError = NoNameError
    /\ out = NoOut
    /\ ValIdle
    /\ DebIdle
    /\ ViewIdle
    /\ ShareIdle

NextCorrupt == Events({"ok"}, Contents)

SpecCorrupt == CorruptInit /\ [][NextCorrupt]_vars

\* validateFileName is called with the name and the files
Validate ==
    /\ vResult.error = "not called"
    /\ vResult' = validateFileName(vName, vFiles)
    /\ UNCHANGED <<vName, vFiles>>
    /\ UNCHANGED appVars
    /\ UNCHANGED debVars
    /\ UNCHANGED viewVars
    /\ UNCHANGED shareVars

SpecValidate == ValInit /\ [][Validate]_vars

----------------------------------------------------------------------------
(* RESPONSIVE TAB NAVIGATION and the rendering.  #tab-navigation is         *)
(* displayed at widths up to the breakpoint only (index.html and app.css,   *)
(* as tech-spec-responsive-layout.md gives them), so a tab is clicked on a  *)
(* mobile width.  plantuml.renderPng is a promise that settles later, with  *)
(* the image or with an error.                                              *)

isMobile(width) == width <= Breakpoint

\* _render(): plantuml.renderPng(editor.getValue()) is requested
render(pending, text) == pending \cup {text}

\* switchTab that does not render when the preview is shown
switchTab_NoRender(tab) ==
    /\ isMobile(innerWidth)
    /\ activeTab' = tab
    /\ sidePanelHidden' = (tab # "code")
    /\ mainPanelHidden' = (tab = "code")
    /\ inflight' = inflight
    /\ out' = [Out("switchTab") EXCEPT
                   !.steps = IF tab = "code" THEN <<"editor.focus">> ELSE <<>>]
    /\ UNCHANGED innerWidth
    /\ UNCHANGED <<renderTimer, renderLeft, renders, image>>
    /\ UNCHANGED <<lsDefault, lsFiles, editor, now, autoSaveTimer,
                   modalHidden, currentMode, nameError>>
    /\ UNCHANGED valVars
    /\ UNCHANGED debVars
    /\ UNCHANGED shareVars

\* a click on #tab-code or #tab-preview
switchTab(tab) ==
    /\ isMobile(innerWidth)
    /\ activeTab' = tab
    /\ IF tab = "code"
       THEN /\ sidePanelHidden' = FALSE
            /\ mainPanelHidden' = TRUE
            /\ inflight' = inflight
            /\ out' = [Out("switchTab") EXCEPT !.steps = <<"editor.focus">>]
       ELSE /\ sidePanelHidden' = TRUE
            /\ mainPanelHidden' = FALSE
            /\ inflight' = render(inflight, editor)
            /\ out' = [Out("switchTab") EXCEPT
                           !.renderPng = <<editor>>, !.steps = <<"_render">>]
    /\ UNCHANGED innerWidth
    /\ UNCHANGED <<renderTimer, renderLeft, renders, image>>
    /\ UNCHANGED <<lsDefault, lsFiles, editor, now, autoSaveTimer,
                   modalHidden, currentMode, nameError>>
    /\ UNCHANGED valVars
    /\ UNCHANGED debVars
    /\ UNCHANGED shareVars

\* a resize listener that shows the code panel whenever the width is mobile
Resize_ResetTab(width) ==
    /\ innerWidth' = width
    /\ activeTab' = IF isMobile(width) THEN "code" ELSE activeTab
    /\ sidePanelHidden' = FALSE
    /\ mainPanelHidden' = isMobile(width)
    /\ out' = Out("resize")
    /\ UNCHANGED renVars
    /\ UNCHANGED <<lsDefault, lsFiles, editor, now, autoSaveTimer,
                   modalHidden, currentMode, nameError>>
    /\ UNCHANGED valVars
    /\ UNCHANGED debVars
    /\ UNCHANGED shareVars

\* a resize listener without the desktop branch
Resize_NoDesktop(width) ==
    /\ innerWidth' = width
    /\ IF isMobile(width) /\ activeTab = "code"
       THEN mainPanelHidden' = TRUE /\ UNCHANGED sidePanelHidden
       ELSE IF isMobile(width) /\ activeTab = "preview"
       THEN sidePanelHidden' = TRUE /\ UNCHANGED mainPanelHidden
       ELSE UNCHANGED <<sidePanelHidden, mainPanelHidden>>
    /\ out' = Out("resize")
    /\ UNCHANGED activeTab
    /\ UNCHANGED renVars
    /\ UNCHANGED <<lsDefault, lsFiles, editor, now, autoSaveTimer,
                   modalHidden, currentMode, nameError>>
    /\ UNCHANGED valVars
    /\ UNCHANGED debVars
    /\ UNCHANGED shareVars

\* a 'resize' event of the window, which has the width given
Resize(width) ==
    /\ innerWidth' = width
    /\ IF isMobile(width) /\ activeTab = "code"
       THEN mainPanelHidden' = TRUE /\ UNCHANGED sidePanelHidden
       ELSE IF isMobile(width) /\ activeTab = "preview"
       THEN sidePanelHidden' = TRUE /\ UNCHANGED mainPanelHidden
       ELSE sidePanelHidden' = FALSE /\ mainPanelHidden' = FALSE
    /\ out' = Out("resize")
    /\ UNCHANGED activeTab
    /\ UNCHANGED renVars
    /\ UNCHANGED <<lsDefault, lsFiles, editor, now, autoSaveTimer,
                   modalHidden, currentMode, nameError>>
    /\ UNCHANGED valVars
    /\ UNCHANGED debVars
    /\ UNCHANGED shareVars

\* the callback of debouncedRender, run by its timeout: _render()
renderCallback ==
    /\ renderTimer
    /\ renderTimer' = FALSE
    /\ inflight' = render(inflight, editor)
    /\ out' = [Out("debouncedRender") EXCEPT
                   !.renderPng = <<editor>>, !.steps = <<"_render">>]
    /\ UNCHANGED image
    /\ UNCHANGED tabVars
    /\ UNCHANGED <<lsDefault, lsFiles, editor, now, autoSaveTimer,
                   modalHidden, currentMode, nameError>>
    /\ UNCHANGED valVars

\* the timer of debouncedRender fires, at an unspecified time
RenderFire ==
    /\ renderCallback
    /\ UNCHANGED <<renderLeft, renders>>
    /\ UNCHANGED debVars
    /\ UNCHANGED shareVars

\* the outcomes of a plantuml.renderPng promise
RenderOutcomes == {"png", "rejected"}

\* a .catch that removes the 'plantuml-default' key
RenderDone_ClearOnError(text, outcome) ==
    /\ text \in inflight
    /\ inflight' = inflight \ {text}
    /\ image' = IF outcome = "png" THEN text ELSE image
    /\ out' = [Out("renderPng") EXCEPT
                   !.ret = (outcome = "png"),
                   !.steps = IF outcome = "png" THEN <<>> ELSE <<"console.log">>]
    /\ UNCHANGED <<renderTimer, renderLeft, renders>>
    /\ UNCHANGED tabVars
    /\ lsDefault' = IF outcome = "png" THEN lsDefault ELSE NoDefault
    /\ UNCHANGED <<lsFiles, editor, now, autoSaveTimer,
                   modalHidden, currentMode, nameError>>
    /\ UNCHANGED valVars
    /\ UNCHANGED debVars
    /\ UNCHANGED shareVars

\* a promise of plantuml.renderPng settles: .then shows the image, .catch
\* logs the error
RenderDone(text, outcome) ==
    /\ text \in inflight
    /\ inflight' = inflight \ {text}
    /\ image' = IF outcome = "png" THEN text ELSE image
    /\ out' = [Out("renderPng") EXCEPT
                   !.ret = (outcome = "png"),
                   !.steps = IF outcome = "png" THEN <<>> ELSE <<"console.log">>]
    /\ UNCHANGED <<renderTimer, renderLeft, renders>>
    /\ UNCHANGED tabVars
    /\ UNCHANGED <<lsDefault, lsFiles, editor, now, autoSaveTimer,
                   modalHidden, currentMode, nameError>>
    /\ UNCHANGED valVars
    /\ UNCHANGED debVars
    /\ UNCHANGED shareVars

\* a 'change' event at an unspecified time, with its debouncedRender()
ViewChange(text) ==
    /\ onChange(text)
    /\ renderTimer' = TRUE
    /\ UNCHANGED <<renderLeft, renders, inflight, image>>
    /\ UNCHANGED tabVars
    /\ UNCHANGED debVars
    /\ UNCHANGED shareVars

\* the autosave of the page, the store accepting it
ViewSave ==
    /\ autoSaveCallback("ok", "ok")
    /\ UNCHANGED debVars
    /\ UNCHANGED viewVars
    /\ UNCHANGED shareVars

\* the page loaded in a window of any of the widths
TabsSpecInit ==
    /\ AppInit
    /\ ValIdle
    /\ DebIdle
    /\ ShareIdle
    /\ RenderInit
    /\ \E width \in Widths : TabsInit(width)

NextTabs ==
    \/ \E tab \in {"code", "preview"} : switchTab(tab)
    \/ \E width \in Widths : Resize(width)
    \/ \E text \in Contents : ViewChange(text)
    \/ RenderFire
    \/ \E text \in Contents \cup {Seed}, outcome \in RenderOutcomes :
           RenderDone(text, outcome)
    \/ ViewSave

\* the page in use: tabs, resizes, typing, rendering and autosave
SpecTabs == TabsSpecInit /\ [][NextTabs]_vars

----------------------------------------------------------------------------
(* The autosave timer in time.  setTimeout runs its callback when the delay *)
(* has passed: time does not pass beyond a timeout that is due, and a due   *)
(* callback runs before the next event is handled.                          *)

\* debounce that leaves a pending timeout as it is (no clearTimeout, no new
\* setTimeout while one is pending)
debounce_KeepPending(pending, left, delay) ==
    IF pending THEN left ELSE delay

\* the function debounce returns: clearTimeout(timerId), then
\* timerId = setTimeout(..., delay); gives the time left on the timer
debounce(pending, left, delay) == delay

\* a 'change' event with one timerId for both debounced functions: the
\* clearTimeout of debouncedAutoSave() cancels the timeout that
\* debouncedRender() has just set
TimedChange_SharedTimer(text) ==
    /\ autoSaveTimer => (timeLeft > 0 /\ burst < MaxBurst)
    /\ renderTimer => renderLeft > 0
    /\ onChange(text)
    /\ renderTimer' = FALSE
    /\ renderLeft' = renderLeft
    /\ renders' = 0
    /\ timeLeft' = debounce(autoSaveTimer, timeLeft, AutoSaveDelay)
    /\ idle' = 0
    /\ burst' = IF autoSaveTimer THEN burst + 1 ELSE 1
    /\ saves' = IF autoSaveTimer THEN saves ELSE 0
    /\ UNCHANGED <<inflight, image>>
    /\ UNCHANGED tabVars
    /\ UNCHANGED shareVars

\* a 'change' event: debouncedRender(), then debouncedAutoSave()
TimedChange(text) ==
    /\ autoSaveTimer => (timeLeft > 0 /\ burst < MaxBurst)
    /\ renderTimer => renderLeft > 0
    /\ onChange(text)
    /\ renderTimer' = TRUE
    /\ renderLeft' = debounce(renderTimer, renderLeft, RenderDelay)
    /\ renders' = 0
    /\ timeLeft' = debounce(autoSaveTimer, timeLeft, AutoSaveDelay)
    /\ idle' = 0
    /\ burst' = IF autoSaveTimer THEN burst + 1 ELSE 1
    /\ saves' = IF autoSaveTimer THEN saves ELSE 0
    /\ UNCHANGED <<inflight, image>>
    /\ UNCHANGED tabVars
    /\ UNCHANGED shareVars

\* d ms pass
Elapse(d) ==
    /\ autoSaveTimer => d <= timeLeft
    /\ renderTimer => d <= renderLeft
    /\ timeLeft' = IF autoSaveTimer THEN timeLeft - d ELSE timeLeft
    /\ renderLeft' = IF renderTimer THEN renderLeft - d ELSE renderLeft
    /\ idle' = IF idle + d > AutoSaveDelay THEN AutoSaveDelay ELSE idle + d
    /\ UNCHANGED <<burst, saves>>
    /\ UNCHANGED <<renderTimer, renders, inflight, image>>
    /\ UNCHANGED tabVars
    /\ UNCHANGED appVars
    /\ UNCHANGED valVars
    /\ UNCHANGED shareVars

\* the timeout is due: the callback runs
TimerFire(w1, w2) ==
    /\ timeLeft = 0
    /\ autoSaveCallback(w1, w2)
    /\ saves' = saves + 1
    /\ UNCHANGED <<timeLeft, idle, burst>>
    /\ UNCHANGED viewVars
    /\ UNCHANGED shareVars

\* the timeout of debouncedRender is due and its callback runs
TimedRenderFire ==
    /\ renderLeft = 0
    /\ renderCallback
    /\ renders' = renders + 1
    /\ UNCHANGED renderLeft
    /\ UNCHANGED debVars
    /\ UNCHANGED shareVars

NextDebounce ==
    \/ \E text \in Contents : TimedChange(text)
    \/ \E d \in ElapseSteps : Elapse(d)
    \/ \E ws \in TwoWrites : TimerFire(ws[1], ws[2])
    \/ TimedRenderFire

\* the editing session: the page stays open
SpecDebounce == Init /\ [][NextDebounce]_vars

\* time passes, and the event loop runs a timeout that is due
FairDebounce ==
    /\ SpecDebounce
    /\ WF_vars(\E d \in ElapseSteps : Elapse(d))
    /\ WF_vars(\E ws \in TwoWrites : TimerFire(ws[1], ws[2]))
    /\ WF_vars(TimedRenderFire)

----------------------------------------------------------------------------
(* SHARE FUNCTIONALITY.  The encoding inspects the text, so here a text is  *)
(* the sequence of its code points (below 2048: no surrogate, which         *)
(* encodeURIComponent would refuse), a byte is a number below 256, and a    *)
(* character of a fragment is a number: 0..63 is the character that stands  *)
(* for that value in base64 (62 is '+' and 63 is '/'), and the others are   *)
(* named below.                                                             *)

Pad == 64

Minus == 65

Underscore == 66

Hash == 67

Bang == 68

\* the seed diagram of loadDefaultFile, as code points
SeedText ==
    <<64, 115, 116, 97, 114, 116, 117, 109, 108, 10, 66, 111, 98, 32, 45,
      62, 32, 65, 108, 105, 99, 101, 58, 32, 72, 101, 108, 108, 111, 33,
      10, 64, 101, 110, 100, 117, 109, 108>>

\* encodeURIComponent and the replacement of every %XX by its character: the
\* UTF-8 bytes of the text
RECURSIVE utf8Bytes(_)
utf8Bytes(text) ==
    IF text = <<>> THEN <<>>
    ELSE LET cp == Head(text)
         IN  (IF cp < 128 THEN <<cp>>
              ELSE <<192 + (cp \div 64), 128 + (cp % 64)>>) \o utf8Bytes(Tail(text))

\* btoa: three bytes give four characters, and '=' fills the last group
RECURSIVE btoa(_)
btoa(bytes) ==
    IF bytes = <<>> THEN <<>>
    ELSE IF Len(bytes) = 1
    THEN <<bytes[1] \div 4, (bytes[1] % 4) * 16, Pad, Pad>>
    ELSE IF Len(bytes) = 2
    THEN <<bytes[1] \div 4, (bytes[1] % 4) * 16 + (bytes[2] \div 16),
           (bytes[2] % 16) * 4, Pad>>
    ELSE <<bytes[1] \div 4, (bytes[1] % 4) * 16 + (bytes[2] \div 16),
           (bytes[2] % 16) * 4 + (bytes[3] \div 64), bytes[3] % 64>>
         \o btoa(SubSeq(bytes, 4, Len(bytes)))

\* String.prototype.replace of every a by b
replaceAll(chars, a, b) ==
    [i \in 1..Len(chars) |-> IF chars[i] = a THEN b ELSE chars[i]]

\* replace(/=+$/, '')
RECURSIVE stripPad(_)
stripPad(chars) ==
    IF chars # <<>> /\ chars[Len(chars)] = Pad
    THEN stripPad(SubSeq(chars, 1, Len(chars) - 1))
    ELSE chars

encodePlantuml(text) ==
    stripPad(replaceAll(replaceAll(btoa(utf8Bytes(text)), 62, Minus), 63, Underscore))

\* while (base64.length % 4) base64 += '='
RECURSIVE addPad(_)
addPad(chars) ==
    IF Len(chars) % 4 = 0 THEN chars ELSE addPad(Append(chars, Pad))

\* the bytes of base64 characters that are all values, the bits left over
\* dropped
RECURSIVE sextetBytes(_)
sextetBytes(v) ==
    IF Len(v) < 2 THEN <<>>
    ELSE IF Len(v) = 2
    THEN <<v[1] * 4 + (v[2] \div 16)>>
    ELSE IF Len(v) = 3
    THEN <<v[1] * 4 + (v[2] \div 16), (v[2] % 16) * 16 + (v[3] \div 4)>>
    ELSE <<v[1] * 4 + (v[2] \div 16), (v[2] % 16) * 16 + (v[3] \div 4),
           (v[3] % 4) * 64 + v[4]>>
         \o sextetBytes(SubSeq(v, 5, Len(v)))

\* atob (forgiving-base64 decode): of a text whose length is a multiple of
\* four, one or two '=' at the end are dropped; a length of 4n+1 and a
\* character that is no base64 value make it throw
atob(chars) ==
    LET n == Len(chars)
        data == IF n % 4 = 0 /\ n >= 2 /\ chars[n] = Pad /\ chars[n - 1] = Pad
                THEN SubSeq(chars, 1, n - 2)
                ELSE IF n % 4 = 0 /\ n >= 1 /\ chars[n] = Pad
                THEN SubSeq(chars, 1, n - 1)
                ELSE chars
    IN  IF Len(data) % 4 = 1 \/ \E i \in 1..Len(data) : data[i] > 63
        THEN [ok |-> FALSE, bytes |-> <<>>]
        ELSE [ok |-> TRUE, bytes |-> sextetBytes(data)]

isCont(b) == b >= 128 /\ b <= 191

\* decodeURIComponent of the %XX of every byte: the text of well-formed
\* UTF-8, and a URIError otherwise
RECURSIVE utf8Decode(_)
utf8Decode(bytes) ==
    IF bytes = <<>> THEN [ok |-> TRUE, text |-> <<>>]
    ELSE LET b == bytes[1]
             n == IF b < 128 THEN 1
                  ELSE IF b >= 194 /\ b <= 223 THEN 2
                  ELSE IF b >= 224 /\ b <= 239 THEN 3
                  ELSE IF b >= 240 /\ b <= 244 THEN 4
                  ELSE 0
             cp == IF n = 1 THEN b
                   ELSE IF n = 2 THEN (b - 192) * 64 + (bytes[2] - 128)
                   ELSE IF n = 3
                   THEN (b - 224) * 4096 + (bytes[2] - 128) * 64 + (bytes[3] - 128)
                   ELSE (b - 240) * 262144 + (bytes[2] - 128) * 4096
                        + (bytes[3] - 128) * 64 + (bytes[4] - 128)
             wellFormed ==
                 /\ n > 0
                 /\ Len(bytes) >= n
                 /\ \A i \in 2..n : isCont(bytes[i])
                 /\ n = 3 => (cp >= 2048 /\ ~(cp >= 55296 /\ cp <= 57343))
                 /\ n = 4 => (cp >= 65536 /\ cp <= 1114111)
         IN  IF ~wellFormed THEN [ok |-> FALSE, text |-> <<>>]
             ELSE LET rest == utf8Decode(SubSeq(bytes, n + 1, Len(bytes)))
                  IN  [ok |-> rest.ok,
                       text |-> IF rest.ok THEN <<cp>> \o rest.text ELSE <<>>]

\* ok: it returned the text, else it threw
decodePlantuml(encoded) ==
    LET base64 == addPad(replaceAll(replaceAll(encoded, Minus, 62), Underscore, 63))
        utf8 == atob(base64)
    IN  IF ~utf8.ok THEN [ok |-> FALSE, text |-> <<>>]
        ELSE utf8Decode(utf8.bytes)

\* the fragment of the URL that generateShareUrl returns: '#/' and the
\* encoded buffer
generateShareUrl(text) == <<Hash, 63>> \o encodePlantuml(text)

\* the code points of the texts that are shared: line feed, '>', '?', 'A'
\* and e with acute accent
TextChars == {10, 62, 63, 65, 233}

\* the texts that are shared
Texts == UNION {[1..n -> TextChars] : n \in 0..MaxTextLen}

\* the 'plantuml-default' items of the page that starts, the text as code
\* points: absent, the empty text, "B"
StoredItems ==
    {[present |-> FALSE, text |-> <<>>], [present |-> TRUE, text |-> <<>>],
     [present |-> TRUE, text |-> <<66>>]}

\* the characters of the fragments that no page has generated
FragChars == {0, 16, 48, Pad, Minus, Bang}

\* window.location.hash: '#/...' and '#...'
Fragments ==
    UNION {{<<Hash, 63>> \o f, <<Hash>> \o f} :
               f \in UNION {[1..n -> FragChars] : n \in 0..MaxFragLen}}

\* loadDefaultFile, of an item whose text is code points
loadDefaultText(defaultItem) ==
    IF defaultItem.present /\ defaultItem.text # <<>> THEN defaultItem.text ELSE SeedText

\* the start of the page without the try and catch around decodePlantuml: an
\* error ends the script
startPage_NoCatch(h, stored) ==
    LET fromUrl == Len(h) >= 2 /\ h[1] = Hash /\ h[2] = 63
        decoded == decodePlantuml(SubSeq(h, 3, Len(h)))
        loaded == fromUrl /\ decoded.ok /\ decoded.text # <<>>
    IN  IF fromUrl /\ ~decoded.ok
        THEN [editor |-> <<>>, loadedFromUrl |-> FALSE, stored |-> stored,
              log |-> <<"uncaught">>]
        ELSE [editor |-> IF loaded THEN decoded.text ELSE loadDefaultText(stored),
              loadedFromUrl |-> loaded,
              stored |-> stored,
              log |-> (IF loaded THEN <<"setValue(decoded)">>
                       ELSE <<"initializeDefaultFile">>)
                      \o <<"debouncedRender", "initializeTabs", "on('change')">>]

\* the start of the page: the fragment '#/...' is decoded and, if the text is
\* not empty, put into the editor; then the callback of plantuml.initialize
\* calls initializeDefaultFile unless loadedFromUrl, and attaches the change
\* listener last.  Nothing calls setItem.
startPage(h, stored) ==
    LET fromUrl == Len(h) >= 2 /\ h[1] = Hash /\ h[2] = 63
        decoded == decodePlantuml(SubSeq(h, 3, Len(h)))
        loaded == fromUrl /\ decoded.ok /\ decoded.text # <<>>
    IN  [editor |-> IF loaded THEN decoded.text ELSE loadDefaultText(stored),
         loadedFromUrl |-> loaded,
         stored |-> stored,
         log |-> (IF fromUrl /\ ~decoded.ok THEN <<"console.error">> ELSE <<>>)
                 \o (IF loaded THEN <<"setValue(decoded)">>
                     ELSE <<"initializeDefaultFile">>)
                 \o <<"debouncedRender", "initializeTabs", "on('change')">>]

\* the page is opened with the fragment h
StartPage(h) ==
    /\ sLog = <<>>
    /\ hash' = h
    /\ LET started == startPage(h, sStored)
       IN  /\ sEditor' = started.editor
           /\ loadedFromUrl' = started.loadedFromUrl
           /\ sStored' = started.stored
           /\ sLog' = started.log
    /\ UNCHANGED sContent
    /\ UNCHANGED modalVars
    /\ UNCHANGED appVars
    /\ UNCHANGED valVars
    /\ UNCHANGED debVars
    /\ UNCHANGED viewVars

\* the URL that generateShareUrl() returns for the buffer is opened
OpenShared ==
    /\ sLog = <<>>
    /\ StartPage(generateShareUrl(sContent))

\* the page is opened with a fragment that comes from elsewhere, or with none
OpenFragment(h) ==
    /\ sContent = <<>>
    /\ StartPage(h)

\* a buffer to share and a store of the browser that opens the page
StartInit ==
    /\ AppInit
    /\ ValIdle
    /\ DebIdle
    /\ ViewIdle
    /\ ModalIdle
    /\ sContent \in Texts
    /\ sStored \in StoredItems
    /\ hash = <<>>
    /\ sEditor = <<>>
    /\ loadedFromUrl = FALSE
    /\ sLog = <<>>

NextStart ==
    \/ OpenShared
    \/ \E h \in Fragments \cup {<<>>} : OpenFragment(h)

SpecStart == StartInit /\ [][NextStart]_vars

\* the code points of "@startuml\nA->B\n@enduml"
SampleText ==
    <<64, 115, 116, 97, 114, 116, 117, 109, 108, 10, 65, 45, 62, 66, 10,
      64, 101, 110, 100, 117, 109, 108>>

\* the code points of a text of the page
codePoints(text) ==
    IF text = "" THEN <<>>
    ELSE IF text = Seed THEN SeedText
    ELSE SampleText

\* the text of the page that has the code points
textOf(cps) == CHOOSE text \in Contents \cup {Seed} : codePoints(text) = cps

\* the fragments the page is opened with: none, the share URLs of the texts of
\* the page, and '#/!'
SharedFragments ==
    {<<>>, <<Hash, 63, Bang>>}
        \cup {generateShareUrl(codePoints(text)) : text \in Contents \cup {Seed}}

\* a start of the page that ends with saveDefaultFile(editor.getValue())
PageStart_SaveOnLoad(h) ==
    /\ LET started == startPage(h, [present |-> lsDefault.present,
                                    text |-> codePoints(lsDefault.text)])
       IN  /\ editor' = textOf(started.editor)
           /\ out' = [Out("pageLoad") EXCEPT
                          !.ret = started.loadedFromUrl, !.steps = started.log]
           /\ lsDefault' = DefaultItem(textOf(started.editor))
    /\ autoSaveTimer' = FALSE
    /\ modalHidden' = TRUE
    /\ currentMode' = "open"
    /\ nameError' = NoNameError
    /\ UNCHANGED <<lsFiles, now>>
    /\ UNCHANGED valVars
    /\ UNCHANGED debVars
    /\ UNCHANGED viewVars
    /\ UNCHANGED shareVars

\* the page is loaded with the fragment h, over the store as it is: the text
\* of the fragment, or else loadDefaultFile(), fills the editor before the
\* change listener is attached; ret: loadedFromUrl
PageStart(h) ==
    /\ LET started == startPage(h, [present |-> lsDefault.present,
                                    text |-> codePoints(lsDefault.text)])
       IN  /\ editor' = textOf(started.editor)
           /\ out' = [Out("pageLoad") EXCEPT
                          !.ret = started.loadedFromUrl, !.steps = started.log]
    /\ autoSaveTimer' = FALSE
    /\ modalHidden' = TRUE
    /\ currentMode' = "open"
    /\ nameError' = NoNameError
    /\ UNCHANGED <<lsDefault, lsFiles, now>>
    /\ UNCHANGED valVars
    /\ UNCHANGED debVars
    /\ UNCHANGED viewVars
    /\ UNCHANGED shareVars

NextLoad ==
    \/ Events({"ok"}, Contents)
    \/ \E h \in SharedFragments : PageStart(h)

\* the page in use over a store that accepts every write, loaded again and
\* again, with and without a shared fragment
SpecLoad == Init /\ [][NextLoad]_vars

----------------------------------------------------------------------------
(* THE SHARE MODAL.  shareLeft is the time left on the timeout that         *)
(* shareModalTimer holds, shareShown the time the modal has been shown      *)
(* since showShareNotification was last called, up to ShareDelay; copying   *)
(* holds the URLs of the calls of handleShare that await copyToClipboard.   *)

\* the texts of the editor while links are shared
ShareTexts == {<<>>, <<65>>, <<62, 62, 62>>}

\* what the rest of the page keeps while the share modal is used
PageStands ==
    /\ UNCHANGED <<lsDefault, lsFiles, editor, now, autoSaveTimer, modalHidden,
                   currentMode, nameError>>
    /\ UNCHANGED valVars
    /\ UNCHANGED debVars
    /\ UNCHANGED viewVars
    /\ UNCHANGED <<hash, sStored, sEditor, loadedFromUrl, sLog>>

\* the text of the editor is changed
ShareEdit(text) ==
    /\ sContent # text
    /\ sContent' = text
    /\ out' = Out("change")
    /\ UNCHANGED modalVars
    /\ PageStands

\* showShareNotification that leaves a timeout that is pending to run
showShareNotification_KeepTimer(url, copySuccess) ==
    /\ shareUrl' = url
    /\ shareMessage' = IF copySuccess THEN "success" ELSE "error"
    /\ shows' = IF shareModalHidden THEN 1 ELSE shows + 1
    /\ shareModalHidden' = FALSE
    /\ shareModalTimer' = TRUE
    /\ shareLeft' = IF shareModalTimer THEN shareLeft ELSE ShareDelay
    /\ shareShown' = 0

\* showShareNotification(url, copySuccess): the timeout that is pending is
\* cleared, the URL and the message are set, the modal is shown and a
\* timeout of ShareDelay is set
showShareNotification(url, copySuccess) ==
    /\ shareUrl' = url
    /\ shareMessage' = IF copySuccess THEN "success" ELSE "error"
    /\ shows' = IF shareModalHidden THEN 1 ELSE shows + 1
    /\ shareModalHidden' = FALSE
    /\ shareModalTimer' = TRUE
    /\ shareLeft' = ShareDelay
    /\ shareShown' = 0

\* a click on #btn-share, or Ctrl+Shift+S: handleShare up to its await
handleShare ==
    /\ Len(copying) < MaxCopies
    /\ copying' = Append(copying, generateShareUrl(sContent))
    /\ out' = Out("handleShare")
    /\ UNCHANGED <<shareModalHidden, shareModalTimer, shareLeft, shareShown,
                   shows, shareUrl, shareMessage>>
    /\ UNCHANGED sContent
    /\ PageStands

\* copyToClipboard of the i-th call settles with copySuccess, and handleShare
\* goes on to showShareNotification
CopySettled(i, copySuccess) ==
    /\ i \in 1..Len(copying)
    /\ ~shareModalHidden => shows < MaxShows
    /\ showShareNotification(copying[i], copySuccess)
    /\ copying' = SubSeq(copying, 1, i - 1) \o SubSeq(copying, i + 1, Len(copying))
    /\ out' = [Out("showShareNotification") EXCEPT !.ret = copySuccess]
    /\ UNCHANGED sContent
    /\ PageStands

\* a click on a close button of the modal or outside its box, or Escape,
\* while the modal is shown
closeShareModal ==
    /\ ~shareModalHidden
    /\ shareModalHidden' = TRUE
    /\ shareModalTimer' = FALSE
    /\ shareLeft' = 0
    /\ out' = Out("closeShareModal")
    /\ UNCHANGED <<shareShown, shows, shareUrl, shareMessage, copying>>
    /\ UNCHANGED sContent
    /\ PageStands

\* d ms pass, no longer than up to the time the timeout is due
ShareElapse(d) ==
    /\ shareModalTimer => d <= shareLeft
    /\ shareLeft' = IF shareModalTimer THEN shareLeft - d ELSE shareLeft
    /\ shareShown' = IF shareModalHidden THEN shareShown
                     ELSE IF shareShown + d > ShareDelay THEN ShareDelay
                     ELSE shareShown + d
    /\ out' = Out("time")
    /\ UNCHANGED <<shareModalHidden, shareModalTimer, shows, shareUrl,
                   shareMessage, copying>>
    /\ UNCHANGED sContent
    /\ PageStands

\* the timeout of showShareNotification is due and its callback runs:
\* closeShareModal(), shareModalTimer = null
ShareTimerFire ==
    /\ shareModalTimer
    /\ shareLeft = 0
    /\ shareModalHidden' = TRUE
    /\ shareModalTimer' = FALSE
    /\ out' = Out("shareModalTimer")
    /\ UNCHANGED <<shareLeft, shareShown, shows, shareUrl, shareMessage, copying>>
    /\ UNCHANGED sContent
    /\ PageStands

NextShareModal ==
    \/ \E text \in ShareTexts : ShareEdit(text)
    \/ handleShare
    \/ \E i \in 1..MaxCopies, copySuccess \in BOOLEAN : CopySettled(i, copySuccess)
    \/ closeShareModal
    \/ \E d \in ShareSteps : ShareElapse(d)
    \/ ShareTimerFire

\* links are shared while the page stays open
SpecShareModal == Init /\ [][NextShareModal]_vars

\* time passes, and the event loop runs a timeout that is due
FairShareModal ==
    /\ SpecShareModal
    /\ WF_vars(\E d \in ShareSteps : ShareElapse(d))
    /\ WF_vars(ShareTimerFire)

----------------------------------------------------------------------------
(* Properties *)

\* listAll(): the persisted collection as the page reads it
Files == getAllFiles(lsFiles)

NamedIndices(files) == {i \in 1..Len(files) : files[i].id # DefaultId}
DefaultIndices(files) == {i \in 1..Len(files) : files[i].id = DefaultId}

Materialized == DefaultIndices(Files) # {}
ExactlyOneDefault == Cardinality(DefaultIndices(Files)) = 1

\* C1: in every reachable state no two snapshots of the persisted collection
\* have the same name.
C1_UniqueNames ==
    \A i, j \in 1..Len(Files) : i # j => Files[i].name # Files[j].name

\* C1 witness: a save-as was refused for a name that is taken, next to two
\* stored snapshots
C1_Witness ==
    /\ Len(Files) >= 2
    /\ out.op = "handleSaveAs"
    /\ nameError = MsgDuplicate

\* C2: once the collection holds the working copy, every later state holds
\* exactly one snapshot with id "default".
C2_OneDefaultForever ==
    /\ [](Materialized => ExactlyOneDefault)
    /\ [][Materialized => ExactlyOneDefault']_vars

\* C2 witness: a named snapshot has been deleted from a collection that holds
\* the working copy
C2_Witness ==
    /\ Materialized
    /\ out.op = "handleDeleteFile"
    /\ out.ret

\* C3: deleting the id "default" is refused with an alert and makes no store
\* write: both keys, and so the working copy and the rest of the collection,
\* are as before.
C3_DeleteDefaultRefused ==
    [][out'.op = "handleDeleteFile" =>
          \A w \in WriteOutcomes :
              handleDeleteFile(DefaultId, TRUE, w) =>
                  /\ lsFiles' = lsFiles
                  /\ lsDefault' = lsDefault
                  /\ out'.alerts = <<MsgNoDelete>>
                  /\ out'.writes = <<>>
                  /\ ~out'.ret]_vars

\* C3 witness: the delete of the default file was refused while the working
\* copy and a named snapshot were stored
C3_Witness ==
    /\ Materialized
    /\ Len(Files) >= 2
    /\ out.op = "handleDeleteFile"
    /\ out.alerts = <<MsgNoDelete>>

\* the first snapshot with the id, as Array.prototype.find returns it
FileOf(files, id) == files[findIndex(files, id)]

\* C4: opening a stored snapshot makes getWorkingCopy() return that
\* snapshot's content and leaves the snapshot's content, createdAt and name
\* as they were.  Stated for the opens whose store writes succeed.
C4_OpenSetsWorkingCopy ==
    [][\A id \in StoredIds :
          handleOpenFile(id, "ok", "ok") =>
              /\ loadDefaultFile(lsDefault') = FileOf(Files, id).content
              /\ FileOf(Files', id).content = FileOf(Files, id).content
              /\ FileOf(Files', id).createdAt = FileOf(Files, id).createdAt
              /\ FileOf(Files', id).name = FileOf(Files, id).name]_vars

\* C5: getWorkingCopy() returns the stored working copy whenever one has
\* been stored, for every text.
C5_WorkingCopyReturned ==
    lsDefault.present => loadDefaultFile(lsDefault) = lsDefault.text

\* the snapshots of a collection with the name and the content
Holding(files, name, content) ==
    {i \in 1..Len(files) : files[i].name = name /\ files[i].content = content}

\* C6: a save-as that reports success is followed by a collection with
\* exactly one snapshot of the given name, holding the given content.
C6_SavedSnapshotListed ==
    [][\A input \in NameInputs, r \in RandomSuffixes, w \in WriteOutcomes :
          (handleSaveAs(input, r, w) /\ out'.ret) =>
              /\ Cardinality({i \in 1..Len(Files') : Files'[i].name = trim(input)}) = 1
              /\ Cardinality(Holding(Files', trim(input), editor)) = 1]_vars

\* a save-as of the input is refused by the validation
Refused(input) ==
    /\ ~validateFileName(trim(input), Files).valid
    /\ \E r \in RandomSuffixes, w \in WriteOutcomes : handleSaveAs(input, r, w)

\* C7: a save-as refused with a validation error changes neither the
\* collection, nor the fast-path key, nor the editor buffer.
C7_RefusedSaveAsChangesNothing ==
    [][out'.op = "handleSaveAs" =>
          \A input \in NameInputs :
              Refused(input) => UNCHANGED <<lsFiles, lsDefault, editor>>]_vars

\* C7 witness: a save-as was refused for a reason of each kind in turn; here
\* the name is taken and the store holds two snapshots and the fast-path key
C7_Witness ==
    /\ out.op = "handleSaveAs"
    /\ ~out.ret
    /\ nameError \in {MsgEmpty, MsgReserved, MsgDuplicate}
    /\ Len(Files) >= 2
    /\ lsDefault.present

\* a name of whitespace only, or of nothing
Blank(name) == \A i \in 1..Len(name) : name[i] = " "

\* C8: validateFileName answers EmptyName for a blank name, else
\* ReservedName for "default", else DuplicateName for the name of a file of
\* the collection, else valid.
C8_ValidationOrder ==
    vResult.error # "not called" =>
        vResult =
            IF Blank(vName) THEN [valid |-> FALSE, error |-> MsgEmpty]
            ELSE IF vName = <<"default">> THEN [valid |-> FALSE, error |-> MsgReserved]
            ELSE IF \E i \in 1..Len(vFiles) : vFiles[i].name = vName
                 THEN [valid |-> FALSE, error |-> MsgDuplicate]
            ELSE [valid |-> TRUE, error |-> ""]

\* C8 witness: the reserved name was validated against a collection that
\* holds a file of that name, and was reported as reserved
C8_Witness ==
    /\ vName = <<"default">>
    /\ \E i \in 1..Len(vFiles) : vFiles[i].name = vName
    /\ vResult.error = MsgReserved

\* the named snapshots of a collection, in its order
RECURSIVE Named(_)
Named(files) ==
    IF files = <<>> THEN <<>>
    ELSE IF Head(files).id # DefaultId
         THEN <<Head(files)>> \o Named(Tail(files))
         ELSE Named(Tail(files))

\* q comes from p by leaving entries out
RECURSIVE SubSeqOf(_, _)
SubSeqOf(q, p) ==
    IF q = <<>> THEN TRUE
    ELSE IF p = <<>> THEN FALSE
    ELSE IF Head(q) = Head(p) THEN SubSeqOf(Tail(q), Tail(p))
    ELSE SubSeqOf(q, Tail(p))

DefaultFirst == \A i \in DefaultIndices(Files) : i = 1

CreatedAscending ==
    \A i, j \in NamedIndices(Files) :
        i < j => Files[i].createdAt <= Files[j].createdAt

\* a step keeps the named snapshots in their order and puts a new one last
KeepsOrder ==
    \/ SubSeqOf(Named(Files'), Named(Files))
    \/ /\ Named(Files') # <<>>
       /\ SubSeq(Named(Files'), 1, Len(Named(Files')) - 1) = Named(Files)

\* C9: the collection lists the working copy first, when it is stored, and
\* then the named snapshots in the order of their creation.
C9_ListOrder ==
    /\ [](DefaultFirst /\ CreatedAscending)
    /\ [][KeepsOrder]_vars

\* C9 witness: the working copy, first written after a named snapshot was
\* created, leads the collection
C9_Witness ==
    /\ Len(Files) >= 2
    /\ Files[1].id = DefaultId
    /\ Files[2].createdAt < Files[1].createdAt

\* the step deletes the snapshots with the id
Deletes(id) == \E w \in WriteOutcomes : handleDeleteFile(id, TRUE, w)

\* C10: a named snapshot stays in the collection, with every field as it
\* was created, through every step that is not a delete of its id.
C10_NamedSnapshotImmutable ==
    [][\A i \in NamedIndices(Files) :
          \/ \E j \in 1..Len(Files') : Files'[j] = Files[i]
          \/ Deletes(Files[i].id)]_vars

\* C10 witness: a named snapshot was opened after its creation, so the
\* working copy holds its content and a later lastModified
C10_Witness ==
    /\ out.op = "handleOpenFile"
    /\ out.ret
    /\ Materialized
    /\ \E i \in NamedIndices(Files) :
           /\ Files[1].content = Files[i].content
           /\ Files[1].lastModified > Files[i].lastModified

\* the working copy entry of a collection that holds one
DefaultOf(files) == FileOf(files, DefaultId)

\* the step is an event of the page and not a passing of time, which leaves
\* out as the last handler has set it
TimeStands == UNCHANGED <<now, timeLeft, idle>>

\* the step calls saveDefaultFile: from the timer or from an open
SavesDefault ==
    /\ TimeStands
    /\ out'.op \in {"debouncedAutoSave", "handleOpenFile"}
    /\ out'.writes # <<>>

\* C11: the createdAt of the working copy is the clock reading of the save
\* that first puts it into the collection, and no later step changes it; a
\* later save changes only content and lastModified of the entry.
C11_DefaultCreatedAtFixed ==
    [][((~Materialized /\ Materialized') =>
            /\ DefaultOf(Files').createdAt = now
            /\ DefaultOf(Files').lastModified = now)
       /\
       (Materialized =>
            /\ Materialized'
            /\ DefaultOf(Files').createdAt = DefaultOf(Files).createdAt
            /\ DefaultOf(Files').id = DefaultOf(Files).id
            /\ DefaultOf(Files').name = DefaultOf(Files).name
            /\ (SavesDefault => DefaultOf(Files').lastModified = now))]_vars

\* C11 witness: an open has saved the working copy at a later clock reading
\* than the one it was created at
C11_Witness ==
    /\ out.op = "handleOpenFile"
    /\ out.ret
    /\ Materialized
    /\ DefaultOf(Files).lastModified > DefaultOf(Files).createdAt

\* C12: a save of the text that the last save stored leaves the working copy
\* with that text, makes no second entry with id "default" and leaves the
\* size of the collection and its named snapshots as they were.
C12_SaveTwiceSameText ==
    [][(/\ SavesDefault
        /\ Materialized
        /\ lsDefault.present
        /\ DefaultOf(Files).content = lsDefault.text
        /\ lsDefault'.text = lsDefault.text) =>
           /\ DefaultOf(Files').content = lsDefault.text
           /\ ExactlyOneDefault'
           /\ Len(Files') = Len(Files)
           /\ Named(Files') = Named(Files)
           /\ DefaultOf(Files').createdAt = DefaultOf(Files).createdAt]_vars

\* C12 witness: the only file of the collection, the working copy, has been
\* reloaded, which saves its own text again, at a later clock reading
C12_Witness ==
    /\ out.op = "handleOpenFile"
    /\ out.ret
    /\ Len(Files) = 1
    /\ Files[1].id = DefaultId
    /\ Files[1].content = lsDefault.text
    /\ Files[1].lastModified > Files[1].createdAt

\* C13: the 'change' events of a burst, each within the delay of the one
\* before, lead to one call of the autosave callback: none while the timer
\* is pending, one once it has fired, and the call is made when the whole
\* delay has passed since the last event.
C13_OneSavePerBurst ==
    /\ [](burst >= 1 => saves = IF autoSaveTimer THEN 0 ELSE 1)
    /\ [][saves' > saves => (idle >= AutoSaveDelay /\ ~autoSaveTimer')]_vars

\* C13 witness: a burst of three events has ended in its one save
C13_Witness ==
    /\ burst >= 3
    /\ ~autoSaveTimer
    /\ saves = 1
    /\ out.op = "debouncedAutoSave"

\* the autosave callback has run on the buffer c
SavedBuffer(c) ==
    /\ ~autoSaveTimer
    /\ out.op = "debouncedAutoSave"
    /\ out.writes = <<"ok", "ok">> => lsDefault = DefaultItem(c)

\* C14: a pending autosave leads to a run of the callback unless the buffer
\* changes again; the callback saves the buffer as it is when the timer
\* fires, which a store that accepts the writes then holds as working copy;
\* and a pending timer goes away by firing only, never by being cancelled
\* without a new one.
C14_EventualPersistence ==
    /\ \A c \in Contents :
           (autoSaveTimer /\ editor = c) ~> (editor # c \/ SavedBuffer(c))
    /\ [][(TimeStands /\ out'.op = "debouncedAutoSave" /\ out'.writes = <<"ok", "ok">>) =>
              /\ editor' = editor
              /\ lsDefault' = DefaultItem(editor)
              /\ DefaultOf(Files').content = editor]_vars
    /\ [][(autoSaveTimer /\ ~autoSaveTimer') =>
              (out'.op = "debouncedAutoSave" /\ out'.writes # <<>>)]_vars

\* C14 witness: a timer was cancelled and replaced by a later 'change'
\* event, and the one callback run has stored the buffer
C14_Witness ==
    /\ burst >= 2
    /\ ~autoSaveTimer
    /\ out.op = "debouncedAutoSave"
    /\ out.writes = <<"ok", "ok">>
    /\ lsDefault = DefaultItem(editor)
    /\ DefaultOf(Files).content = editor

\* a setItem call of the handler threw
WriteFailed(o) == \E i \in 1..Len(o.writes) : o.writes[i] # "ok"

\* C15: a saveDefaultFile call in which a setItem call throws shows the
\* user one alert.
C15_SaveFailureSurfacedOnce ==
    [][(SavesDefault /\ WriteFailed(out')) => Len(out'.alerts) = 1]_vars

\* C16: a save-as whose setItem call throws does not get a truthy value
\* back from saveFile.
C16_StoreFailureReturned ==
    [][(out'.op = "handleSaveAs" /\ WriteFailed(out')) => ~out'.ret]_vars

\* C17: a save in which a setItem call throws leaves the buffer as it was
\* when the save was called: as before the step for the autosave and the
\* save-as, and holding the opened snapshot's content, which setValue has
\* put there before saveDefaultFile is called, for an open.
C17_FailedSaveKeepsBuffer ==
    [][WriteFailed(out') =>
          /\ out'.op \in {"debouncedAutoSave", "handleSaveAs"} => editor' = editor
          /\ out'.op = "handleOpenFile" =>
                 \A id \in StoredIds :
                     (\E ws \in TwoWrites : handleOpenFile(id, ws[1], ws[2])) =>
                         editor' = FileOf(Files, id).content]_vars

\* C17 witness: the save of an open failed on the fast-path key, and the
\* buffer holds the opened text, which the fast-path key does not hold
C17_Witness ==
    /\ out.op = "handleOpenFile"
    /\ out.ret
    /\ out.writes = <<"QuotaExceededError">>
    /\ lsDefault.present
    /\ editor # lsDefault.text

\* C18: every 'change' event arms the timer with the full delay, whatever
\* the last save came to, and a pending timer leads to a run of the
\* callback, which calls setItem with the buffer of that moment, unless the
\* buffer changes again.
C18_AutosaveSurvivesFailure ==
    /\ [][(\E text \in Contents : TimedChange(text)) =>
              (autoSaveTimer' /\ timeLeft' = AutoSaveDelay)]_vars
    /\ [][(TimeStands /\ out'.op = "debouncedAutoSave") =>
              /\ out'.writes # <<>>
              /\ out'.writes[1] = "ok" => lsDefault' = DefaultItem(editor')]_vars
    /\ \A c \in Contents :
           (autoSaveTimer /\ editor = c /\ lsDefault # DefaultItem(c))
               ~> (editor # c \/ (out.op = "debouncedAutoSave" /\ out.writes # <<>>))

\* C18 witness: a save has been attempted (and failed on the fast-path key)
\* after an earlier save that failed on the collection
C18_Witness ==
    /\ out.op = "debouncedAutoSave"
    /\ out.writes = <<"Error">>
    /\ lsDefault.present
    /\ ~Materialized
    /\ editor # lsDefault.text

\* the 'plantuml-files' item is not the text of an array
Corrupted(filesItem) ==
    filesItem.present /\ filesItem.json.kind \in {"malformed", "object"}

\* C19: on a corrupted 'plantuml-files' item no handler ends in an uncaught
\* error, and a save of the working copy goes as on an empty collection: it
\* leaves a collection of the working copy alone.
C19_CorruptedReadsAsEmpty ==
    [][Corrupted(lsFiles) =>
          /\ ~out'.uncaught
          /\ SavesDefault =>
                 /\ Len(Files') = 1
                 /\ Files'[1].id = DefaultId
                 /\ Files'[1].content = editor']_vars

\* C20: a delete or an open of an id that the collection does not hold
\* changes neither the store nor the buffer, logs a warning and renders the
\* list again.
C20_AbsentIdNoOpRerender ==
    [][(out'.op \in {"handleDeleteFile", "handleOpenFile"} /\ out'.warns # <<>>) =>
          /\ UNCHANGED <<lsDefault, lsFiles, editor>>
          /\ out'.rerendered]_vars

\* C21: after initializeTabs and any sequence of tab clicks and resizes, at a
\* width <= 810 exactly one of the editor panel and the preview panel is
\* visible and it is the one of activeTab; at a width > 810 both are visible.
C21_PanesFollowWidth ==
    /\ activeTab \in {"code", "preview"}
    /\ isMobile(innerWidth) =>
           /\ sidePanelHidden # mainPanelHidden
           /\ sidePanelHidden <=> activeTab = "preview"
    /\ ~isMobile(innerWidth) => (~sidePanelHidden /\ ~mainPanelHidden)

\* the preview tab was clicked at the breakpoint width: the editor is hidden
C21_Witness ==
    /\ innerWidth = Breakpoint
    /\ out.op = "switchTab"
    /\ activeTab = "preview"
    /\ sidePanelHidden
    /\ ~mainPanelHidden

\* C22: at a mobile width, a click on the preview tab hides the editor panel,
\* shows the preview panel and requests exactly one rendering, of the text the
\* buffer holds at that moment; a click on the code tab requests none.
C22_PreviewTabRenders ==
    [][(isMobile(innerWidth) /\ out'.op = "switchTab") =>
           /\ activeTab' = "preview" =>
                  /\ sidePanelHidden' /\ ~mainPanelHidden'
                  /\ out'.renderPng = <<editor>>
                  /\ editor' = editor
                  /\ inflight' = inflight \cup {editor}
           /\ activeTab' = "code" =>
                  /\ ~sidePanelHidden' /\ mainPanelHidden'
                  /\ out'.renderPng = <<>>
                  /\ inflight' = inflight]_vars

\* the preview tab was clicked at width 800 after the buffer was edited, when
\* nothing was being rendered
C22_Witness ==
    /\ innerWidth = 800
    /\ out.op = "switchTab"
    /\ activeTab = "preview"
    /\ editor # Seed
    /\ out.renderPng = <<editor>>
    /\ inflight = {editor}
    /\ ~renderTimer

\* C23: a resize never changes activeTab; one that ends at a desktop width
\* leaves both panels visible, and one that ends at a mobile width leaves
\* exactly the panel of activeTab visible.
C23_ResizeKeepsActiveTab ==
    [][out'.op = "resize" =>
           /\ activeTab' = activeTab
           /\ isMobile(innerWidth') =>
                  /\ sidePanelHidden' = (activeTab = "preview")
                  /\ mainPanelHidden' = (activeTab = "code")
           /\ ~isMobile(innerWidth') => (~sidePanelHidden' /\ ~mainPanelHidden')]_vars

\* a resize has ended at a mobile width with the preview tab active, while a
\* rendering requested by a tab click has completed
C23_Witness ==
    /\ out.op = "resize"
    /\ innerWidth = 800
    /\ activeTab = "preview"
    /\ sidePanelHidden
    /\ ~mainPanelHidden
    /\ image = editor


\* C24: for every stored collection, the list that renderFileList shows has
\* one row for each file, in the order of the collection, every row has the
\* button that opens (or reloads) its file, and a row has the Delete button
\* exactly if the id of its file is not 'default'.
C24_ListButtons ==
    LET rows == renderFileList(lsFiles)
    IN  /\ Len(rows) = Len(Files)
        /\ \A i \in 1..Len(rows) :
               /\ rows[i].id = Files[i].id
               /\ rows[i].open \in {"Open", "Reload"}
               /\ rows[i].open = "Reload" <=> Files[i].id = DefaultId
               /\ rows[i].delete <=> Files[i].id # DefaultId

\* the panel is open on a collection of the default file and a named file: the
\* first has Reload only, the second has Delete and Open
C24_Witness ==
    /\ ~modalHidden
    /\ Len(Files) = 2
    /\ LET rows == renderFileList(lsFiles)
       IN  /\ rows[1].id = DefaultId /\ ~rows[1].delete /\ rows[1].open = "Reload"
           /\ rows[2].id # DefaultId /\ rows[2].delete /\ rows[2].open = "Open"


\* C25: a save-as refused by the validation shows the message of the
\* validation in #name-error and leaves the panel open, and a save-as closes
\* the panel only if the stored collection then ends with the new file,
\* holding the buffer.
C25_ClosedOnlyWhenStored ==
    [][(TimeStands /\ out'.op = "handleSaveAs") =>
          /\ \A input \in NameInputs :
                 Refused(input) =>
                     /\ nameError' = validateFileName(trim(input), Files).error
                     /\ ~modalHidden'
          /\ modalHidden' =>
                 /\ Len(Files') = Len(Files) + 1
                 /\ Files'[Len(Files')].content = editor]_vars


C27_DeleteAfterConfirmation ==
    [][(TimeStands /\ out'.op = "handleDeleteFile") =>
          /\ out'.steps[1] = "confirm"
          /\ \A fileId \in FileIds :
                 handleDeleteFile(fileId, FALSE, "ok") =>
                     /\ out'.steps = <<"confirm">>
                     /\ UNCHANGED <<lsFiles, lsDefault>>
                     /\ out'.writes = <<>>
                     /\ ~out'.rerendered
          /\ out'.ret =>
                 /\ out'.steps = <<"confirm", "deleteFile", "renderFileList">>
                 /\ out'.rerendered
                 /\ ~modalHidden']_vars

\* the deletion of a named file was declined: the panel is open and the file
\* is still stored
C27_Witness ==
    /\ out.op = "handleDeleteFile"
    /\ out.steps = <<"confirm">>
    /\ ~modalHidden
    /\ \E i \in 1..Len(Files) : Files[i].id # DefaultId


\* C28: debouncedRender and debouncedAutoSave have a timer each: a 'change'
\* event arms both with the full delay of each, the callback of one runs
\* without a change to the timer of the other, and once a burst of 'change'
\* events is over there has been exactly one rendering and one autosave since
\* its last event, which a burst that ends leads to.
C28_IndependentTimers ==
    /\ (autoSaveTimer /\ burst = MaxBurst) ~>
           (~renderTimer /\ renders = 1 /\ ~autoSaveTimer /\ saves = 1)
    /\ [](burst >= 1 => /\ renders = (IF renderTimer THEN 0 ELSE 1)
                        /\ saves = (IF autoSaveTimer THEN 0 ELSE 1))
    /\ [][/\ editor' # editor =>
                 /\ renderTimer' /\ renderLeft' = RenderDelay
                 /\ autoSaveTimer' /\ timeLeft' = AutoSaveDelay
          /\ (TimeStands /\ out'.op = "debouncedRender" /\ renders' > renders) =>
                 UNCHANGED <<autoSaveTimer, timeLeft, saves, lsDefault, lsFiles>>
          /\ (TimeStands /\ out'.op = "debouncedAutoSave" /\ saves' > saves) =>
                 UNCHANGED <<renderTimer, renderLeft, renders, inflight>>]_vars

\* a burst of three 'change' events is over: the text has been rendered once
\* and saved once since the last of them
C28_Witness ==
    /\ burst = MaxBurst
    /\ ~renderTimer /\ renders = 1
    /\ ~autoSaveTimer /\ saves = 1
    /\ editor \in inflight
    /\ lsDefault = DefaultItem(editor)


\* C29: a rendering changes neither key of the store: not when it is
\* requested, by a tab click or by the timer of debouncedRender, and not when
\* its promise settles, with the image or with an error.
C29_RenderLeavesStore ==
    [][out'.op \in {"switchTab", "debouncedRender", "renderPng"} =>
          /\ UNCHANGED <<lsDefault, lsFiles>>
          /\ UNCHANGED <<editor, autoSaveTimer>>]_vars

\* the rendering of a text that was saved has failed: the text is stored under
\* both keys and no image has been shown
C29_Witness ==
    /\ out.op = "renderPng"
    /\ ~out.ret
    /\ image = NoImage
    /\ editor # Seed
    /\ lsDefault = DefaultItem(editor)
    /\ Len(Files) = 1
    /\ Files[1].content = editor


C35_FastPathAgrees ==
    Materialized =>
        /\ lsDefault.present
        /\ lsDefault.text = DefaultOf(Files).content


\* C38: an autosave that fires after a file was opened, with no edit in
\* between, saves the buffer, which holds the content that the open has
\* loaded: it writes the 'plantuml-default' key with that text or not at all,
\* and if the writes of both succeeded it leaves the stored default file with
\* the content the open gave it.
C38_AutosaveAfterOpen ==
    [][(TimeStands /\ out.op = "handleOpenFile" /\ out.ret
            /\ out'.op = "debouncedAutoSave") =>
          /\ editor' = editor
          /\ \E i \in 1..Len(Files) : Files[i].content = editor
          /\ lsDefault' \in {lsDefault, DefaultItem(editor)}
          /\ (~WriteFailed(out) /\ ~WriteFailed(out')) =>
                 /\ lsDefault' = lsDefault
                 /\ lsDefault' = DefaultItem(editor)
                 /\ DefaultOf(Files').content = DefaultOf(Files).content
                 /\ DefaultOf(Files').content = editor]_vars

\* a named file was opened over another text: the autosave is pending and the
\* store holds the content of the file as the default file
C38_Witness ==
    /\ out.op = "handleOpenFile"
    /\ out.ret
    /\ ~WriteFailed(out)
    /\ autoSaveTimer
    /\ editor # Seed
    /\ lsDefault = DefaultItem(editor)
    /\ \E i \in NamedIndices(Files) : Files[i].content = editor


\* C39: a delete of a named file for which deleteFile returned true has
\* removed exactly the files of that id from the collection, the others staying
\* as they were and in their order, the default file among them, and has
\* changed neither the 'plantuml-default' key nor the buffer.
C39_DeleteRemovesOnlyTarget ==
    [][(TimeStands /\ out'.op = "handleDeleteFile" /\ out'.ret) =>
          /\ \E id \in StoredIds \ {DefaultId} :
                 /\ Files' = SelectSeq(Files, LAMBDA f : f.id # id)
                 /\ Len(Files') < Len(Files)
          /\ UNCHANGED <<lsDefault, editor>>]_vars


\* C36: when no rendering is pending or in flight and the last one to settle
\* has given its image, the image shown is the one rendered from the text of
\* the buffer.
C36_ImageFollowsBuffer ==
    (~renderTimer /\ inflight = {} /\ out.op = "renderPng" /\ out.ret) =>
        image = editor


\* C33: a page opened with the URL that generateShareUrl() returned for a
\* buffer starts with that text in its editor, whatever its store holds.
C33_ShareRoundTrip ==
    (sLog # <<>> /\ hash = generateShareUrl(sContent)) => sEditor = sContent


\* the fragment is '#/...' and decodePlantuml throws on what follows '#/'
Malformed(h) ==
    /\ Len(h) >= 2
    /\ h[1] = Hash
    /\ h[2] = 63
    /\ ~decodePlantuml(SubSeq(h, 3, Len(h))).ok

\* C34: a page opened with a fragment on which decodePlantuml throws logs the
\* error and goes on: the editor gets the stored default text, or the seed
\* diagram, the change listener is attached, and the store is as it was.
C34_MalformedFragment ==
    /\ [](Malformed(hash) =>
              /\ sLog[1] = "console.error"
              /\ sLog[Len(sLog)] = "on('change')"
              /\ ~loadedFromUrl
              /\ sEditor = loadDefaultText(sStored)
              /\ sEditor # <<>>)
    /\ [][Malformed(hash') => UNCHANGED <<sStored, lsDefault, lsFiles>>]_vars

\* a page with a stored text was opened with the fragment '#/!': atob has
\* thrown and the editor holds the stored text
C34_Witness ==
    /\ hash = <<Hash, 63, Bang>>
    /\ Malformed(hash)
    /\ sStored.present
    /\ sEditor = sStored.text
    /\ sLog[1] = "console.error"


\* C37: a load of the page, with the fragment of a shared text, with a
\* fragment that does not decode or with none, changes neither key of the
\* store and leaves no autosave pending; the 'plantuml-default' key and the
\* default file of the collection change only in an autosave, which a
\* 'change' event has armed, and in an open.
C37_StartupWritesNothing ==
    [][/\ out'.op = "pageLoad" =>
              /\ UNCHANGED <<lsDefault, lsFiles>>
              /\ ~autoSaveTimer'
       /\ (lsDefault' # lsDefault
               \/ DefaultIndices(Files') # DefaultIndices(Files)
               \/ (Materialized /\ DefaultOf(Files') # DefaultOf(Files))) =>
              /\ out'.op \in {"debouncedAutoSave", "handleOpenFile"}
              /\ out'.op = "debouncedAutoSave" => autoSaveTimer]_vars

\* the page was loaded from the share URL of a text over a store without a
\* default file: the editor holds the text and nothing is stored
C37_Witness ==
    /\ out.op = "pageLoad"
    /\ out.ret
    /\ editor \in Contents
    /\ ~lsDefault.present
    /\ ~Materialized
    /\ ~autoSaveTimer


\* C32: the share modal is shown exactly while its timeout is pending, and
\* the timeout is due ShareDelay after showShareNotification was last called:
\* a call shows the modal and sets the full delay, also when a timeout is
\* pending; the callback of the timeout runs only on a modal that has been
\* shown for ShareDelay since the last call; closeShareModal hides the modal
\* and leaves no timeout pending; and a modal that is shown leads to a modal
\* that is hidden.
C32_ShareAutoDismiss ==
    /\ [](/\ shareModalTimer <=> ~shareModalHidden
          /\ shareModalTimer => shareLeft + shareShown = ShareDelay)
    /\ [][/\ out'.op = "showShareNotification" =>
                 /\ ~shareModalHidden' /\ shareModalTimer'
                 /\ shareLeft' = ShareDelay /\ shareShown' = 0
          /\ out'.op = "shareModalTimer" =>
                 /\ shareShown = ShareDelay
                 /\ shareModalHidden' /\ ~shareModalTimer'
          /\ out'.op = "closeShareModal" =>
                 /\ shareModalHidden' /\ ~shareModalTimer'
          /\ (~shareModalHidden /\ shareModalHidden') =>
                 out'.op \in {"shareModalTimer", "closeShareModal"}]_vars
    /\ ~shareModalHidden ~> shareModalHidden

\* the modal was shown again 2 s after it was shown, and the timeout has
\* closed it 3 s after that
C32_Witness ==
    /\ out.op = "shareModalTimer"
    /\ shareModalHidden
    /\ shows = 2
    /\ shareShown = ShareDelay
    /\ shareMessage = "error"

====
